---- MODULE Spec2Model ----
(***************************************************************************)
(* log-hound: distributed log search and follow engine.                   *)
(*                                                                         *)
(* The sub-systems are modelled each under a specification of its own:    *)
(*   SpecPool    MultiRegionClientPool::get_client  (aws/multi_region.rs) *)
(*   SpecSearch  MultiRegionSearcher::search_log_groups and               *)
(*               KamalSearcher::search_logs fan-out, with the poll loop   *)
(*               of search_single_log_group and the ssh steps of          *)
(*               search_server_logs            (aws/logs.rs, kamal/logs.rs)*)
(*   SpecPoll    the same search with a single target and every backend   *)
(*               response the row bound allows                             *)
(*   SpecFollow  the background task of follow_logs_channel               *)
(*               (kamal/logs.rs) and the holder of its channel and flag;  *)
(*               SpecFollowFair adds the fairness of the runtime           *)
(*   SpecFilter  the include/exclude filter of parse_logs and of the      *)
(*               follow task, over every pattern list the bounds allow    *)
(*   SpecTui     the loop and key handlers of run_app (tui/app.rs) with   *)
(*               the follow sessions they start and stop                   *)
(*   SpecLines   parse_logs and the follow task over raw lines: the       *)
(*               parsers parse_log_line / parse_log_line_static, the      *)
(*               blank-line skip, the sort and the limit (kamal/logs.rs)  *)
(*   SpecCli     run_cloudwatch_search / run_kamal_search (main.rs) and   *)
(*               display_results (output.rs) in every output mode         *)
(*   SpecAppSearch the Enter handler of run_app around its search: the    *)
(*               entries and the search state it leaves (tui/app.rs)      *)
(*   SpecParse   RegionalLogGroup::parse and is_valid_region_format       *)
(*               (aws/multi_region.rs) over the target texts              *)
(*   SpecPoolFair SpecPool with every started get_client call taking its  *)
(*               steps                                                    *)
(*   SpecRows    the single-target search over every result row, with or  *)
(*               without the fields parse_log_result reads (aws/logs.rs)  *)
(*   SpecTime    parse_duration, to_docker_since and TimeRange (time.rs)  *)
(*   SpecFetch   the --tail argument of fetch_docker_logs (kamal/logs.rs) *)
(*   SpecList    the paging loop of list_log_groups (aws/logs.rs)         *)
(*   SpecBuffer  app.results under the receive loop, the CloudWatch poll, *)
(*               Enter and `f` of run_app (tui/app.rs)                    *)
(* A specification leaves the variables of the other sub-systems at their *)
(* idle values.                                                           *)
(***************************************************************************)
EXTENDS Integers, Sequences, FiniteSets, TLC

VARIABLES
    \* ---- MultiRegionClientPool -------------------------------------
    default_region, \* MultiRegionClientPool.default_region (None = Option::None)
    clients,        \* the HashMap behind the RwLock: region key -> Option of client id
    readers,        \* callers holding the RwLock's read guard
    writer,         \* Option of the caller holding the write guard
    callPc,         \* per get_client call: where it is
    callRegion,     \* per call: the `region` argument (None = Option::None)
    callClient,     \* per call: Option of the client it constructed (local `client`)
    callRet,        \* per call: Option of the client it returned
    constructed,    \* number of Client::new calls so far; client ids are 1..constructed
    \* ---- fan-out search --------------------------------------------
    backend,        \* "cloudwatch" (search_log_groups) or "kamal" (search_logs)
    log_groups,     \* the input list: one target per element
    data,           \* per target: the rows the backend holds for the query
    pc,             \* per target: where its future is
    query_id,       \* per target: Option of the id start_query returned
    status,         \* per target: the status string of the last response, or None
    lastEvent,      \* per target: "none", "request" (a status request was sent) or "sleep"
    fault,          \* per target: the failure the transport or backend answered with, or None
    outcome,        \* per target: Option of the future's output
    completed,      \* targets in the order their futures completed
    returned,       \* Option of the list join_all handed to the caller
    session,        \* per target: the ssh Session: "none", "open", "closed" (close() was
                    \* called) or "dropped" (it went out of scope without close())
    commands,       \* per target: the commands run on the Session, in order
    \* ---- follow session --------------------------------------------
    stop_flag,      \* the shared AtomicBool
    chan,           \* entries in the mpsc channel, oldest first
    receiverAlive,  \* the Receiver has not been dropped
    taskPc,         \* where the spawned task is
    pending,        \* Option of the entry the task is sending
    sleepLeft,      \* 100 ms ticks left on the select!'s sleep
    childAlive,     \* the ssh child process runs
    delivered,      \* number of entries the consumer has received (saturating)
    ticksSinceStop, \* 100 ms ticks since the stop flag was set (saturating)
    \* ---- the Kamal filter on its own ---------------------------------
    params,         \* the KamalSearchParams: patterns, exclude, limit
    raw_logs,       \* the lines the remote docker logs printed
    entries,        \* Option of what parse_logs returned for raw_logs
    nread,          \* number of lines of raw_logs the follow task has read
    sent,           \* the entries the follow task handed to sender.send, in order
    now,            \* what Utc::now() reads while the lines are parsed
    \* ---- the TUI (App and run_app) ----------------------------------
    appPc,          \* where run_app's loop is: "recv" (top of the loop) or "event"
    focus,          \* App.focus
    source_mode,    \* App.source_mode
    follow_mode,    \* App.follow_mode
    is_following,   \* App.is_following
    follow_stop_flag, \* App.follow_stop_flag is Some (App.follow_receiver is Some
                    \* exactly when receiverAlive: the App holds the only Receiver)
    sessions,       \* number of follow_logs_channel sessions started so far
    orphans,        \* tasks of earlier sessions that still run, by the value of
                    \* their stop flag
    \* ---- the command line front end (main.rs, output.rs) -------------
    output_mode,    \* the OutputMode of the search command
    stdout,         \* what the run has printed to stdout, in order
    stderr,         \* what the run has printed to stderr, in order
    ret,            \* Option of what run_cloudwatch_search / run_kamal_search returned
    earlier,        \* the stdout of the earlier runs over the same per-target results
    \* ---- the search of the TUI (Enter handler of run_app) ------------
    search_state,   \* App.search_state
    results,        \* App.results
    \* ---- RegionalLogGroup::parse ------------------------------------
    input,          \* the target text handed to RegionalLogGroup::parse
    parsed,         \* Option of the RegionalLogGroup it returned
    \* ---- time.rs ----------------------------------------------------
    components,       \* the <number><unit> components duration_str was put together from
    duration_str,   \* the text handed to parse_duration, to_docker_since, from_relative
    duration,       \* Option of what parse_duration returned
    docker_since,   \* Option of what to_docker_since returned
    start_str,      \* the --start text (None: the window is relative)
    end_str,        \* the --end text (None: the window ends now)
    time_range,     \* Option of what TimeRange::from_explicit / from_relative returned
    \* ---- fetch_docker_logs -------------------------------------------
    cli_limit,      \* the i32 --limit of the command line (or of the preset)
    overflow_checks, \* the build panics on integer overflow (debug) or wraps (release)
    docker_cmd,     \* Option of the outcome of building the docker logs command
    \* ---- list_log_groups ---------------------------------------------
    listPc,         \* "loop": about to send a request; "done": returned
    next_token,     \* the local next_token
    group_names,    \* the local Vec log_groups
    requests,       \* the next_token of each describe_log_groups request sent, in order
    responses,      \* the responses received, in order
    list_ret,       \* Option of what list_log_groups returned
    \* ---- run_app and app.results ---------------------------------------
    loops           \* iterations of run_app's loop that put entries into app.results

poolVars   == <<default_region, clients, readers, writer, callPc, callRegion, callClient, callRet, constructed>>
searchVars == <<backend, log_groups, data, pc, query_id, status, lastEvent, fault, outcome,
                completed, returned, session, commands>>
followVars == <<stop_flag, chan, receiverAlive, taskPc, pending, sleepLeft, childAlive,
                delivered, ticksSinceStop>>
filterVars == <<params, raw_logs, entries, nread, sent, now>>
tuiVars    == <<appPc, focus, source_mode, follow_mode, is_following, follow_stop_flag,
                sessions, orphans>>
cliVars    == <<output_mode, stdout, stderr, ret, earlier>>
appSearchVars == <<search_state, results>>
parseVars  == <<input, parsed>>
timeVars   == <<components, duration_str, duration, docker_since, start_str, end_str, time_range>>
fetchVars  == <<cli_limit, overflow_checks, docker_cmd>>
listVars   == <<listPc, next_token, group_names, requests, responses, list_ret>>
utilVars   == <<timeVars, fetchVars, listVars, loops>>
frontVars  == <<cliVars, appSearchVars, parseVars, utilVars>>
vars == <<poolVars, searchVars, followVars, filterVars, tuiVars, frontVars>>

\* Option<T>: a text-valued option is the text or None; any other option is a
\* sequence of no element (Nothing) or one (Some(x)).
None == "None"
Nothing == <<>>
Some(x) == <<x>>
IsSome(o) == o # <<>>
Get(o) == o[1]

(***************************************************************************)
(* Bounds of the model.                                                    *)
(***************************************************************************)
NCallers == 3
NTargets == 3
MaxRows == 2
ChanCap == 2
MaxDelivered == 2
MaxTicks == 3

(***************************************************************************)
(* MultiRegionClientPool                                                   *)
(***************************************************************************)
Callers == 1..NCallers
Regions == {"us-east-1", "ap-east-2"}
RegionArgs == Regions \cup {None}

\* region.or(self.default_region.as_deref()).unwrap_or("default")
RegionKeyOr(region, dflt) ==
    IF region # None THEN region ELSE IF dflt # None THEN dflt ELSE "default"

RegionKey(region) == RegionKeyOr(region, default_region)

Keys == {RegionKeyOr(r, d) : r \in RegionArgs, d \in RegionArgs}

PoolIdle ==
    /\ default_region = None
    /\ clients = [k \in Keys |-> Nothing]
    /\ readers = {}
    /\ writer = Nothing
    /\ callPc = [c \in Callers |-> "idle"]
    /\ callRegion = [c \in Callers |-> None]
    /\ callClient = [c \in Callers |-> Nothing]
    /\ callRet = [c \in Callers |-> Nothing]
    /\ constructed = 0

\* A caller enters get_client with some `region` argument.
get_client_Call(c) ==
    /\ callPc[c] = "idle"
    /\ \E r \in RegionArgs : callRegion' = [callRegion EXCEPT ![c] = r]
    /\ callPc' = [callPc EXCEPT ![c] = "read"]
    /\ UNCHANGED <<default_region, clients, readers, writer, callClient, callRet, constructed>>

\* self.clients.read().await : granted while no writer holds the lock
get_client_AcquireRead(c) ==
    /\ callPc[c] = "read"
    /\ writer = Nothing
    /\ readers' = readers \cup {c}
    /\ callPc' = [callPc EXCEPT ![c] = "check"]
    /\ UNCHANGED <<default_region, clients, writer, callRegion, callClient, callRet, constructed>>

\* the check with a read guard that outlives its block when the key is missing
get_client_CheckKeepsGuard(c) ==
    /\ callPc[c] = "check"
    /\ c \in readers
    /\ IF IsSome(clients[RegionKey(callRegion[c])])
       THEN /\ callRet' = [callRet EXCEPT ![c] = clients[RegionKey(callRegion[c])]]
            /\ callPc' = [callPc EXCEPT ![c] = "done"]
            /\ readers' = readers \ {c}
       ELSE /\ callPc' = [callPc EXCEPT ![c] = "construct"]
            /\ UNCHANGED <<callRet, readers>>
    /\ UNCHANGED <<default_region, clients, writer, callRegion, callClient, constructed>>

\* if let Some(client) = clients.get(&region_key) { return Ok(client.clone()) }
\* the read guard is dropped at the end of the block on both paths
get_client_Check(c) ==
    /\ callPc[c] = "check"
    /\ c \in readers
    /\ readers' = readers \ {c}
    /\ IF IsSome(clients[RegionKey(callRegion[c])])
       THEN /\ callRet' = [callRet EXCEPT ![c] = clients[RegionKey(callRegion[c])]]
            /\ callPc' = [callPc EXCEPT ![c] = "done"]
       ELSE /\ callPc' = [callPc EXCEPT ![c] = "construct"]
            /\ UNCHANGED callRet
    /\ UNCHANGED <<default_region, clients, writer, callRegion, callClient, constructed>>

\* config_loader.load().await; Client::new(&config) : no lock is held
get_client_Construct(c) ==
    /\ callPc[c] = "construct"
    /\ constructed' = constructed + 1
    /\ callClient' = [callClient EXCEPT ![c] = Some(constructed + 1)]
    /\ callPc' = [callPc EXCEPT ![c] = "write"]
    /\ UNCHANGED <<default_region, clients, readers, writer, callRegion, callRet>>

\* self.clients.write().await : granted while nobody holds the lock
get_client_AcquireWrite(c) ==
    /\ callPc[c] = "write"
    /\ writer = Nothing
    /\ readers = {}
    /\ writer' = Some(c)
    /\ callPc' = [callPc EXCEPT ![c] = "insert"]
    /\ UNCHANGED <<default_region, clients, readers, callRegion, callClient, callRet, constructed>>

\* clients.insert(region_key, client.clone()); guard dropped; Ok(client)
get_client_Insert(c) ==
    /\ callPc[c] = "insert"
    /\ writer = Some(c)
    /\ clients' = [clients EXCEPT ![RegionKey(callRegion[c])] = callClient[c]]
    /\ writer' = Nothing
    /\ callRet' = [callRet EXCEPT ![c] = callClient[c]]
    /\ callPc' = [callPc EXCEPT ![c] = "done"]
    /\ UNCHANGED <<default_region, readers, callRegion, callClient, constructed>>

get_client(c) ==
    \/ get_client_Call(c)
    \/ get_client_AcquireRead(c)
    \/ get_client_Check(c)
    \/ get_client_Construct(c)
    \/ get_client_AcquireWrite(c)
    \/ get_client_Insert(c)

(***************************************************************************)
(* Fan-out search: search_log_groups / search_logs                         *)
(***************************************************************************)
Targets == 1..Len(log_groups)

\* RegionalLogGroup::parse_many: one RegionalLogGroup per input, in input order
parse_many(n) ==
    [i \in 1..n |-> [region |-> IF i % 2 = 0 THEN "ap-east-2" ELSE None, log_group |-> i]]

\* A result row of get_query_results is a list of ResultFields, each a field name
\* and a value, either of which may be missing. A message is a text, a sequence
\* of characters, and so is the text of a timestamp: "2026-01-23 05:36:05.200",
\* and a text of no accepted format
InsightsStamp ==
    <<"2", "0", "2", "6", "-", "0", "1", "-", "2", "3", " ", "0", "5", ":", "3", "6", ":", "0", "5", ".", "2", "0", "0">>
TimestampTexts == {InsightsStamp, <<"y", "e", "s", "t", "e", "r", "d", "a", "y">>}
RowMessages == { <<"o", "k">>, <<"x">> }
Field(name, value) == [field |-> name, value |-> value]

\* the row with the given @timestamp, @message and @ptr fields, in the order the
\* service lists them: each is Nothing (no such field) or Some(the Option of its
\* value)
ResultRow(ts, message, ptr) ==
    (IF IsSome(ts) THEN <<Field("@timestamp", Get(ts))>> ELSE <<>>)
    \o (IF IsSome(message) THEN <<Field("@message", Get(message))>> ELSE <<>>)
    \o (IF IsSome(ptr) THEN <<Field("@ptr", Get(ptr))>> ELSE <<>>)

\* the rows of the searches: a @timestamp and a @message with a value, or
\* without the field, and the @ptr the service adds to every row
Rows ==
    {ResultRow(ts, message, Some(Some(<<"C", "m">>))) :
        ts \in {Nothing} \cup {Some(Some(t)) : t \in TimestampTexts},
        message \in {Nothing} \cup {Some(Some(m)) : m \in RowMessages}}
RowLists == UNION {[1..k -> Rows] : k \in 0..MaxRows}

\* every row over the three fields: a field may also come without a value, and
\* the @ptr may be missing
ResultRows ==
    {ResultRow(ts, message, ptr) :
        ts \in {Nothing, Some(Nothing)} \cup {Some(Some(t)) : t \in TimestampTexts},
        message \in {Nothing, Some(Nothing)} \cup {Some(Some(m)) : m \in RowMessages},
        ptr \in {Nothing, Some(Some(<<"C", "m">>))}}
ResultLists == UNION {[1..k -> ResultRows] : k \in 0..MaxRows}

\* parse_cloudwatch_timestamp: the instant (ms of the day) of a text in one of the
\* accepted formats, None for any other text
parse_cloudwatch_timestamp(val) ==
    IF val = InsightsStamp THEN Some(20165200) ELSE Nothing

\* the `for field in result` loop of parse_log_result: found holds timestamp,
\* message and log_stream
RECURSIVE match_fields(_, _)
match_fields(result, found) ==
    IF result = <<>> THEN found
    ELSE LET f == Head(result)
         IN  match_fields(Tail(result),
                 CASE f.field = "@timestamp" ->
                          IF IsSome(f.value)
                          THEN [found EXCEPT !.timestamp = parse_cloudwatch_timestamp(Get(f.value))]
                          ELSE found
                   [] f.field = "@message" -> [found EXCEPT !.message = f.value]
                   [] f.field = "@logStream" -> [found EXCEPT !.log_stream = f.value]
                   [] OTHER -> found)

\* parse_log_result without the requirement of a message: a row with a
\* timestamp alone yields an entry with the empty message
parse_log_resultAnyMessage(result, log_group) ==
    LET found == match_fields(result, [timestamp |-> Nothing, message |-> Nothing,
                                       log_stream |-> Nothing])
    IN  IF found.timestamp = Nothing
        THEN Nothing
        ELSE Some([timestamp |-> Get(found.timestamp),
                   message |-> IF IsSome(found.message) THEN Get(found.message) ELSE <<>>,
                   log_group |-> log_group, region |-> None])

\* parse_log_result: Some(entry) when the loop found a timestamp and a message,
\* None otherwise (the entry of the model leaves out log_stream, which nothing
\* modelled reads)
parse_log_result(result, log_group) ==
    LET found == match_fields(result, [timestamp |-> Nothing, message |-> Nothing,
                                       log_stream |-> Nothing])
    IN  IF found.timestamp = Nothing \/ found.message = Nothing
        THEN Nothing
        ELSE Some([timestamp |-> Get(found.timestamp), message |-> Get(found.message),
                   log_group |-> log_group, region |-> None])

\* the `for result in results` loop of the Complete arm: parsed rows, in row order,
\* each tagged with the target's region
RECURSIVE CollectEntries(_, _)
CollectEntries(rows, rg) ==
    IF rows = <<>> THEN <<>>
    ELSE LET e == parse_log_result(Head(rows), rg.log_group)
         IN  (IF e = Nothing THEN <<>> ELSE <<[Get(e) EXCEPT !.region = rg.region]>>)
             \o CollectEntries(Tail(rows), rg)

\* what the query status enum can answer (None: the response carries no status)
ResponseStatuses ==
    {None, "Scheduled", "Running", "Unknown", "Complete", "Failed", "Cancelled", "Timeout"}

\* response.status.map(|s| s.as_str().to_string()).unwrap_or_default()
StatusString(s) == IF s = None THEN "" ELSE s

TerminalStatuses == {"Complete", "Failed", "Cancelled", "Timeout"}

\* A mutant of StatusArm: the Timeout arm is missing.
StatusArmNoTimeout(s) ==
    IF s = "Complete" THEN "complete"
    ELSE IF s \in {"Failed", "Cancelled"} THEN "error"
    ELSE "running"

\* A mutant of StatusArm: a failed query is returned as an empty success.
StatusArmFailedIsOk(s) ==
    IF s \in {"Complete", "Failed"} THEN "complete"
    ELSE IF s \in {"Cancelled", "Timeout"} THEN "error"
    ELSE "running"

\* A mutant of StatusArm: only Scheduled and Running count as still running.
StatusArmUnknownIsError(s) ==
    IF s = "Complete" THEN "complete"
    ELSE IF s \in {"Scheduled", "Running"} THEN "running"
    ELSE "error"

\* match status.as_str() { "Complete" => .., "Failed" | "Cancelled" | "Timeout" => .., _ => .. }
StatusArm(s) ==
    IF s = "Complete" THEN "complete"
    ELSE IF s \in {"Failed", "Cancelled", "Timeout"} THEN "error"
    ELSE "running"

\* A mutant of StillRunningPc: the `_` arm loops without sleeping.
StillRunningNoSleep == "poll"

\* the `_` arm: sleep(Duration::from_millis(500)).await before the next iteration
StillRunningPc == "sleep"

\* A mutant of Runnable: the targets are awaited one after the other.
RunnableInTurn(i) ==
    /\ returned = Nothing
    /\ \A j \in Targets : j < i => pc[j] = "done"

\* A mutant of Runnable: the first Err drops the futures still pending.
RunnableUntilErr(i) ==
    /\ returned = Nothing
    /\ \A j \in Targets : fault[j] = None

\* join_all polls every future that has not completed
Runnable(i) == returned = Nothing

\* join_all completes when every future has
JoinReady == \A i \in Targets : pc[i] = "done"

\* A mutant of JoinOutputs: the outputs in completion order.
JoinOutputsAsCompleted == [k \in 1..Len(completed) |-> Get(outcome[completed[k]])]

\* join_all's output: the i-th element is the i-th future's output
JoinOutputs == [i \in Targets |-> Get(outcome[i])]

Ok(i, es) == [target |-> i, ok |-> TRUE, entries |-> es, err |-> <<>>]
Err(i, msg) == [target |-> i, ok |-> FALSE, entries |-> <<>>, err |-> msg]

SearchIdle ==
    /\ backend = None
    /\ log_groups = <<>>
    /\ data = <<>>
    /\ pc = <<>>
    /\ query_id = <<>>
    /\ status = <<>>
    /\ lastEvent = <<>>
    /\ fault = <<>>
    /\ outcome = <<>>
    /\ completed = <<>>
    /\ returned = Nothing
    /\ session = <<>>
    /\ commands = <<>>

\* The state after the futures are collected, before join_all polls them.
SearchStart(b, n, d) ==
    /\ backend = b
    /\ log_groups = parse_many(n)
    /\ data = d
    /\ pc = [i \in 1..n |-> IF b = "cloudwatch" THEN "client" ELSE "connect"]
    /\ query_id = [i \in 1..n |-> Nothing]
    /\ status = [i \in 1..n |-> None]
    /\ lastEvent = [i \in 1..n |-> "none"]
    /\ fault = [i \in 1..n |-> None]
    /\ outcome = [i \in 1..n |-> Nothing]
    /\ completed = <<>>
    /\ returned = Nothing
    /\ session = [i \in 1..n |-> "none"]
    /\ commands = [i \in 1..n |-> <<>>]

\* The future of target i returns `out`; `f` is the failure behind it, if any.
Finish(i, out, f) ==
    /\ pc' = [pc EXCEPT ![i] = "done"]
    /\ outcome' = [outcome EXCEPT ![i] = Some(out)]
    /\ fault' = [fault EXCEPT ![i] = f]
    /\ completed' = Append(completed, i)

\* self.client_pool.get_client(region).await? : never an Err (get_client has no
\* failing path)
search_single_log_group_GetClient(i) ==
    /\ backend = "cloudwatch"
    /\ Runnable(i)
    /\ pc[i] = "client"
    /\ pc' = [pc EXCEPT ![i] = "start"]
    /\ UNCHANGED <<backend, log_groups, data, query_id, status, lastEvent, fault, outcome,
                   completed, returned, session, commands>>

\* client.start_query()...send().await? and query_id.ok_or_else(..)?
search_single_log_group_StartQuery(i) ==
    /\ backend = "cloudwatch"
    /\ Runnable(i)
    /\ pc[i] = "start"
    /\ \/ /\ Finish(i, Err(i, <<"transport">>), "transport")
          /\ UNCHANGED query_id
       \/ /\ Finish(i, Err(i, <<"No query ID returned">>), "no_query_id")
          /\ UNCHANGED query_id
       \/ /\ query_id' = [query_id EXCEPT ![i] = Some(100 + i)]
          /\ pc' = [pc EXCEPT ![i] = "poll"]
          /\ UNCHANGED <<fault, outcome, completed>>
    /\ UNCHANGED <<backend, log_groups, data, status, lastEvent, returned, session, commands>>

\* one iteration of the poll loop: client.get_query_results()...send().await? and
\* the match on the status
search_single_log_group_GetQueryResults(i) ==
    /\ backend = "cloudwatch"
    /\ Runnable(i)
    /\ pc[i] = "poll"
    /\ lastEvent' = [lastEvent EXCEPT ![i] = "request"]
    /\ \/ /\ Finish(i, Err(i, <<"transport">>), "transport")
          /\ UNCHANGED status
       \/ \E s \in ResponseStatuses :
            /\ status' = [status EXCEPT ![i] = StatusString(s)]
            /\ CASE StatusArm(StatusString(s)) = "complete" ->
                      Finish(i, Ok(i, CollectEntries(data[i], log_groups[i])), None)
                 [] StatusArm(StatusString(s)) = "error" ->
                      Finish(i, Err(i, <<"Query", ToString(Get(query_id[i])), StatusString(s)>>),
                             StatusString(s))
                 [] OTHER ->
                      /\ pc' = [pc EXCEPT ![i] = StillRunningPc]
                      /\ UNCHANGED <<fault, outcome, completed>>
    /\ UNCHANGED <<backend, log_groups, data, query_id, returned, session, commands>>

\* sleep(Duration::from_millis(500)).await elapses; the loop goes round
search_single_log_group_Sleep(i) ==
    /\ backend = "cloudwatch"
    /\ Runnable(i)
    /\ pc[i] = "sleep"
    /\ pc' = [pc EXCEPT ![i] = "poll"]
    /\ status' = [status EXCEPT ![i] = None]
    /\ lastEvent' = [lastEvent EXCEPT ![i] = "sleep"]
    /\ UNCHANGED <<backend, log_groups, data, query_id, fault, outcome, completed, returned,
                   session, commands>>

search_single_log_group(i) ==
    \/ search_single_log_group_GetClient(i)
    \/ search_single_log_group_StartQuery(i)
    \/ search_single_log_group_GetQueryResults(i)
    \/ search_single_log_group_Sleep(i)

(***************************************************************************)
(* Texts and the include/exclude filter of the Kamal paths                 *)
(***************************************************************************)
\* A text is a sequence of characters.
Lower(ch) ==
    IF ch = "E" THEN "e" ELSE IF ch = "R" THEN "r" ELSE IF ch = "X" THEN "x"
    ELSE IF ch = "H" THEN "h" ELSE IF ch = "D" THEN "d" ELSE ch

\* str::to_lowercase
to_lowercase(t) == [k \in 1..Len(t) |-> Lower(t[k])]

\* str::contains: `pat` occurs in `t` as a contiguous run of characters
contains(t, pat) ==
    \E k \in 0..(Len(t) - Len(pat)) : SubSeq(t, k + 1, k + Len(pat)) = pat

\* params.patterns and params.exclude of the modelled search and follow session
patterns == << <<"e", "r">> >>
exclude == << <<"x">> >>

\* A mutant of matches_include: one matching include pattern is enough.
matches_includeAny(message, pats) ==
    \/ pats = <<>>
    \/ \E k \in 1..Len(pats) : contains(to_lowercase(message), to_lowercase(pats[k]))

\* params.patterns.is_empty()
\*   || params.patterns.iter().all(|p| entry.message.to_lowercase().contains(&p.to_lowercase()))
matches_include(message, pats) ==
    \/ pats = <<>>
    \/ \A k \in 1..Len(pats) : contains(to_lowercase(message), to_lowercase(pats[k]))

\* params.exclude.iter().any(|p| entry.message.to_lowercase().contains(&p.to_lowercase()))
matches_exclude(message, excl) ==
    \E k \in 1..Len(excl) : contains(to_lowercase(message), to_lowercase(excl[k]))

(***************************************************************************)
(* KamalSearcher::search_server_logs, one future per configured server     *)
(***************************************************************************)
\* KamalSearchParams.limit of the modelled search
params_limit == 100

MaxPatterns == 2
MaxLines == 2
MaxSessions == 2
MaxLimit == 2

\* the KamalSearchParams of the modelled search
search_params == [patterns |-> patterns, exclude |-> exclude, limit |-> params_limit]

\* entries.sort_by(|a, b| b.timestamp.cmp(&a.timestamp)) : stable, newest first
\* each entry takes its place behind every entry with a later timestamp and
\* behind the earlier entries with the same one
SortDesc(es) ==
    LET place == [i \in 1..Len(es) |->
                     Cardinality({j \in 1..Len(es) :
                         \/ es[j].timestamp > es[i].timestamp
                         \/ es[j].timestamp = es[i].timestamp /\ j < i}) + 1]
    IN  [k \in 1..Len(es) |-> es[CHOOSE i \in 1..Len(es) : place[i] = k]]

\* entries.truncate(limit)
Truncate(es, limit) == IF Len(es) > limit THEN SubSeq(es, 1, limit) ELSE es

Whitespace == {" ", "\n"}

\* str::trim
RECURSIVE trim(_)
trim(t) ==
    IF t = <<>> THEN <<>>
    ELSE IF Head(t) \in Whitespace THEN trim(Tail(t))
    ELSE IF t[Len(t)] \in Whitespace THEN trim(SubSeq(t, 1, Len(t) - 1))
    ELSE t

\* str::find(ch): Some(position of the first `ch`), counted from 1, or Nothing
find(t, ch) ==
    IF \E k \in 1..Len(t) : t[k] = ch
    THEN Some(CHOOSE k \in 1..Len(t) : t[k] = ch /\ \A j \in 1..(k - 1) : t[j] # ch)
    ELSE Nothing

\* line.splitn(2, ' ').collect(): the line itself when it holds no space, else the
\* text before the first space and the text after it
splitn2(line) ==
    LET sp == find(line, " ")
    IN  IF sp = Nothing THEN <<line>>
        ELSE <<SubSeq(line, 1, Get(sp) - 1), SubSeq(line, Get(sp) + 1, Len(line))>>

Digits == {"0", "1", "2", "3", "4", "5", "6", "7", "8", "9"}
DigitValue(ch) == CHOOSE n \in 0..9 : ToString(n) = ch

\* the timestamps of the modelled minute, up to the digit of the second
StampPrefix ==
    <<"2", "0", "2", "6", "-", "0", "1", "-", "3", "1", "T", "1", "2", ":", "3", "4", ":", "0">>

\* what docker logs --timestamps prints in front of a line written at second `sec`
Stamp(sec) == StampPrefix \o <<ToString(sec), "Z">>

\* s.trim_end_matches('Z')
RECURSIVE trim_end_matches_Z(_)
trim_end_matches_Z(s) ==
    IF s # <<>> /\ s[Len(s)] = "Z" THEN trim_end_matches_Z(SubSeq(s, 1, Len(s) - 1)) ELSE s

\* parse_docker_timestamp: Some(instant), here the second of the modelled minute,
\* for a text in the RFC 3339 form or in the form %Y-%m-%dT%H:%M:%S with any
\* number of trailing Z; None for every other text of the modelled alphabet
parse_docker_timestamp(s) ==
    LET body == trim_end_matches_Z(s)
    IN  IF Len(body) = 19 /\ SubSeq(body, 1, 18) = StampPrefix /\ body[19] \in Digits
        THEN Some(DigitValue(body[19]))
        ELSE Nothing

\* self.config.service
service == "web"

\* format!("kamal:{}", server)
kamal_group(server) == <<"kamal", ":", server>>

\* parse_log_line: always Some(entry); `nowv` is what Utc::now() reads
parse_log_line(line, server, nowv) ==
    LET parts == splitn2(line)
    IN  IF Len(parts) < 2
        THEN [timestamp |-> nowv, message |-> line, log_group |-> kamal_group(server),
              log_stream |-> service, region |-> None]
        ELSE LET timestamp_str == parts[1]
                 timestamp == parse_docker_timestamp(timestamp_str)
             IN  [timestamp |-> IF timestamp = Nothing THEN nowv ELSE Get(timestamp),
                  message |-> parts[2], log_group |-> kamal_group(server),
                  log_stream |-> service, region |-> None]

\* parse_log_line_static: the copy of parse_log_line the spawned task calls
parse_log_line_static(line, server, svc, nowv) ==
    LET parts == splitn2(line)
    IN  IF Len(parts) < 2
        THEN [timestamp |-> nowv, message |-> line, log_group |-> kamal_group(server),
              log_stream |-> svc, region |-> None]
        ELSE LET timestamp_str == parts[1]
                 timestamp == parse_docker_timestamp(timestamp_str)
             IN  [timestamp |-> IF timestamp = Nothing THEN nowv ELSE Get(timestamp),
                  message |-> parts[2], log_group |-> kamal_group(server),
                  log_stream |-> svc, region |-> None]

\* the `for line in raw_logs.lines()` loop of parse_logs: blank lines are skipped,
\* every other line is parsed and its entry pushed when its message passes the
\* filters; the entries come in line order
RECURSIVE FilterLines(_, _, _, _)
FilterLines(lines, server, p, nowv) ==
    IF lines = <<>> THEN <<>>
    ELSE LET line == Head(lines)
             entry == parse_log_line(line, server, nowv)
         IN  (IF trim(line) # <<>>
                   /\ matches_include(entry.message, p.patterns)
                   /\ ~matches_exclude(entry.message, p.exclude)
              THEN <<entry>>
              ELSE <<>>)
             \o FilterLines(Tail(lines), server, p, nowv)

\* A mutant of parse_logs: the list is cut to the limit before it is sorted.
parse_logsTruncateFirst(lines, server, p, nowv) ==
    SortDesc(Truncate(FilterLines(lines, server, p, nowv), p.limit))

\* parse_logs: the filtered entries, newest first, at most p.limit of them
parse_logs(lines, server, p, nowv) ==
    Truncate(SortDesc(FilterLines(lines, server, p, nowv)), p.limit)

\* What `docker ps --filter name=<service> --format {{.ID}} | head -1` can answer:
\* the command could not be run, it exited with a failure, or it printed its stdout.
DockerPsOutputs ==
    { [ran |-> FALSE, success |-> FALSE, stdout |-> <<>>],
      [ran |-> TRUE, success |-> FALSE, stdout |-> <<>>],
      [ran |-> TRUE, success |-> TRUE, stdout |-> <<>>],
      [ran |-> TRUE, success |-> TRUE, stdout |-> <<"\n">>],
      [ran |-> TRUE, success |-> TRUE, stdout |-> <<"c", "1", "\n">>] }

\* what `docker logs` answers when it could be run
DockerLogsRan == [ran |-> TRUE, success |-> TRUE, stdout |-> <<>>]
DockerLogsNotRun == [ran |-> FALSE, success |-> FALSE, stdout |-> <<>>]

\* A mutant of find_container: an empty container id is handed on.
find_containerEmptyOk(out) ==
    IF ~out.ran THEN [ok |-> FALSE, id |-> <<>>, err |-> "Failed to execute docker ps"]
    ELSE IF ~out.success THEN [ok |-> FALSE, id |-> <<>>, err |-> "docker ps failed"]
    ELSE [ok |-> TRUE, id |-> trim(out.stdout), err |-> None]

\* find_container: Err when docker ps could not be run, failed, or printed no id
find_container(out) ==
    IF ~out.ran THEN [ok |-> FALSE, id |-> <<>>, err |-> "Failed to execute docker ps"]
    ELSE IF ~out.success THEN [ok |-> FALSE, id |-> <<>>, err |-> "docker ps failed"]
    ELSE IF trim(out.stdout) = <<>>
         THEN [ok |-> FALSE, id |-> <<>>, err |-> "No running container found for service"]
         ELSE [ok |-> TRUE, id |-> trim(out.stdout), err |-> None]

\* self.connect_ssh(server).await?
search_server_logs_Connect(i) ==
    /\ backend = "kamal"
    /\ Runnable(i)
    /\ pc[i] = "connect"
    /\ \/ /\ Finish(i, Err(i, <<"Failed to SSH to", ToString(i)>>), "ssh")
          /\ UNCHANGED session
       \/ /\ pc' = [pc EXCEPT ![i] = "find"]
          /\ session' = [session EXCEPT ![i] = "open"]
          /\ UNCHANGED <<fault, outcome, completed>>
    /\ UNCHANGED <<backend, log_groups, data, query_id, status, lastEvent, returned, commands>>

\* self.find_container(&session).await? : on Err the `?` returns and `session` goes
\* out of scope
search_server_logs_FindContainer(i) ==
    /\ backend = "kamal"
    /\ Runnable(i)
    /\ pc[i] = "find"
    /\ \E out \in DockerPsOutputs :
         /\ commands' = [commands EXCEPT ![i] = Append(@, [cmd |-> "docker ps", out |-> out])]
         /\ IF find_container(out).ok
            THEN /\ pc' = [pc EXCEPT ![i] = "fetch"]
                 /\ UNCHANGED <<fault, outcome, completed, session>>
            ELSE /\ Finish(i, Err(i, <<find_container(out).err>>), find_container(out).err)
                 /\ session' = [session EXCEPT ![i] = "dropped"]
    /\ UNCHANGED <<backend, log_groups, data, query_id, status, lastEvent, returned>>

\* self.fetch_docker_logs(..).await? ; self.parse_logs(..)? runs on without an await
\* and has no failing path
search_server_logs_FetchLogs(i) ==
    /\ backend = "kamal"
    /\ Runnable(i)
    /\ pc[i] = "fetch"
    /\ \/ /\ Finish(i, Err(i, <<"Failed to execute docker logs">>), "docker logs")
          /\ session' = [session EXCEPT ![i] = "dropped"]
          /\ commands' = [commands EXCEPT
                            ![i] = Append(@, [cmd |-> "docker logs", out |-> DockerLogsNotRun])]
       \/ /\ pc' = [pc EXCEPT ![i] = "close"]
          /\ commands' = [commands EXCEPT
                            ![i] = Append(@, [cmd |-> "docker logs", out |-> DockerLogsRan])]
          /\ UNCHANGED <<fault, outcome, completed, session>>
    /\ UNCHANGED <<backend, log_groups, data, query_id, status, lastEvent, returned>>

\* session.close().await? ; Ok(entries)
search_server_logs_Close(i) ==
    /\ backend = "kamal"
    /\ Runnable(i)
    /\ pc[i] = "close"
    /\ session' = [session EXCEPT ![i] = "closed"]
    /\ \/ Finish(i, Err(i, <<"close failed">>), "close")
       \/ Finish(i, Ok(i, parse_logs(data[i], log_groups[i].log_group, search_params, now)), None)
    /\ UNCHANGED <<backend, log_groups, data, query_id, status, lastEvent, returned, commands>>

search_server_logs(i) ==
    \/ search_server_logs_Connect(i)
    \/ search_server_logs_FindContainer(i)
    \/ search_server_logs_FetchLogs(i)
    \/ search_server_logs_Close(i)

\* a join that returns with the first future that completes
join_all_ReturnFirst ==
    /\ log_groups # <<>>
    /\ returned = Nothing
    /\ completed # <<>>
    /\ returned' = Some(JoinOutputsAsCompleted)
    /\ UNCHANGED <<backend, log_groups, data, pc, query_id, status, lastEvent, fault,
                   outcome, completed, session, commands>>

\* futures::future::join_all(futures).await hands the outputs to the caller
join_all_Return ==
    /\ log_groups # <<>>
    /\ returned = Nothing
    /\ JoinReady
    /\ returned' = Some(JoinOutputs)
    /\ UNCHANGED <<backend, log_groups, data, pc, query_id, status, lastEvent, fault,
                   outcome, completed, session, commands>>

(***************************************************************************)
(* Follow session: the task spawned by follow_logs_channel, and the        *)
(* caller that holds the Receiver and the stop flag                        *)
(***************************************************************************)
\* the messages the remote process can print
FollowMessages == { <<"E", "r", "r">>, <<"o", "k">>, <<"e", "r", "x">> }

\* the filter of the spawned task: matches_include && !matches_exclude
passes_filters(message, pats, excl) ==
    matches_include(message, pats) /\ ~matches_exclude(message, excl)

\* The state follow_logs_channel leaves behind when it returns Ok(()): the ssh child
\* runs, the task is spawned, the caller holds the Receiver and the flag.
FollowStart ==
    /\ stop_flag = FALSE
    /\ chan = <<>>
    /\ receiverAlive = TRUE
    /\ taskPc = "while"
    /\ pending = Nothing
    /\ sleepLeft = 0
    /\ childAlive = TRUE
    /\ delivered = 0
    /\ ticksSinceStop = 0

\* while !stop_flag.load(Ordering::Relaxed) { tokio::select! { .. } } : the loop
\* test; entering select! arms a fresh sleep(100 ms)
task_While ==
    /\ taskPc = "while"
    /\ IF stop_flag
       THEN taskPc' = "kill" /\ UNCHANGED sleepLeft
       ELSE taskPc' = "select" /\ sleepLeft' = 1
    /\ UNCHANGED <<stop_flag, chan, receiverAlive, pending, childAlive, delivered,
                   ticksSinceStop>>

\* line_result = reader.next_line() => Ok(Some(line)): parse, filter, and on a match
\* go on to sender.send(entry).await
task_Line ==
    /\ taskPc = "select"
    /\ childAlive
    /\ \E message \in FollowMessages :
         IF passes_filters(message, patterns, exclude)
         THEN /\ pending' = Some([message |-> message])
              /\ taskPc' = "send"
         ELSE /\ taskPc' = "while"
              /\ UNCHANGED pending
    /\ UNCHANGED <<stop_flag, chan, receiverAlive, sleepLeft, childAlive, delivered,
                   ticksSinceStop>>

\* A mutant of task_EofOrError: the break leaves the task without the kill.
task_EofOrErrorNoKill ==
    /\ taskPc = "select"
    /\ taskPc' = "ended"
    /\ UNCHANGED <<stop_flag, chan, receiverAlive, pending, sleepLeft, childAlive,
                   delivered, ticksSinceStop>>

\* Ok(None) => break (EOF), Err(_) => break
task_EofOrError ==
    /\ taskPc = "select"
    /\ taskPc' = "kill"
    /\ UNCHANGED <<stop_flag, chan, receiverAlive, pending, sleepLeft, childAlive,
                   delivered, ticksSinceStop>>

\* _ = tokio::time::sleep(Duration::from_millis(100)) => if stop_flag.load() { break }
task_SleepFires ==
    /\ taskPc = "select"
    /\ sleepLeft = 0
    /\ taskPc' = IF stop_flag THEN "kill" ELSE "while"
    /\ UNCHANGED <<stop_flag, chan, receiverAlive, pending, sleepLeft, childAlive,
                   delivered, ticksSinceStop>>

\* sender.send(entry).await cannot complete: the channel is full and the Receiver
\* is alive
SendBlocked == taskPc = "send" /\ receiverAlive /\ Len(chan) >= ChanCap

\* if sender.send(entry).await.is_err() { break } : completes with Err when the
\* Receiver is dropped, with Ok once the channel has room, and waits until then
task_Send ==
    /\ taskPc = "send"
    /\ ~SendBlocked
    /\ IF receiverAlive
       THEN /\ chan' = Append(chan, Get(pending))
            /\ taskPc' = "while"
       ELSE /\ taskPc' = "kill"
            /\ UNCHANGED chan
    /\ pending' = Nothing
    /\ UNCHANGED <<stop_flag, receiverAlive, sleepLeft, childAlive, delivered,
                   ticksSinceStop>>

\* let _ = child.kill().await; the task ends
task_Kill ==
    /\ taskPc = "kill"
    /\ childAlive' = FALSE
    /\ taskPc' = "ended"
    /\ UNCHANGED <<stop_flag, chan, receiverAlive, pending, sleepLeft, delivered,
                   ticksSinceStop>>

\* The caller of follow_logs_channel holds the Receiver and the flag; what it can do
\* with them are the three operations below, in any order.
\* the holder of the Receiver takes one entry: receiver.try_recv()
caller_TryRecv ==
    /\ receiverAlive
    /\ chan # <<>>
    /\ chan' = Tail(chan)
    /\ delivered' = IF delivered < MaxDelivered THEN delivered + 1 ELSE delivered
    /\ UNCHANGED <<stop_flag, receiverAlive, taskPc, pending, sleepLeft, childAlive,
                   ticksSinceStop>>

\* the holder of the flag requests the stop: stop_flag.store(true, Ordering::Relaxed)
caller_SetStop ==
    /\ ~stop_flag
    /\ stop_flag' = TRUE
    /\ UNCHANGED <<chan, receiverAlive, taskPc, pending, sleepLeft, childAlive, delivered,
                   ticksSinceStop>>

\* the holder drops the Receiver; the entries still in the channel go with it
caller_DropReceiver ==
    /\ receiverAlive
    /\ receiverAlive' = FALSE
    /\ chan' = <<>>
    /\ UNCHANGED <<stop_flag, taskPc, pending, sleepLeft, childAlive, delivered,
                   ticksSinceStop>>

\* The task has a step that takes no time: time does not pass before it is taken.
TaskCanRun ==
    \/ taskPc \in {"while", "kill"}
    \/ taskPc = "select" /\ sleepLeft = 0
    \/ taskPc = "send" /\ ~SendBlocked

\* 100 ms pass: the armed sleep runs down, the time since the stop request grows
Tick ==
    /\ taskPc # "none"
    /\ ~TaskCanRun
    /\ \/ stop_flag /\ ticksSinceStop < MaxTicks
       \/ taskPc = "select" /\ sleepLeft > 0
    /\ sleepLeft' = IF taskPc = "select" /\ sleepLeft > 0 THEN sleepLeft - 1 ELSE sleepLeft
    /\ ticksSinceStop' =
         IF stop_flag /\ ticksSinceStop < MaxTicks THEN ticksSinceStop + 1 ELSE ticksSinceStop
    /\ UNCHANGED <<stop_flag, chan, receiverAlive, taskPc, pending, childAlive, delivered>>

FollowIdle ==
    /\ stop_flag = FALSE
    /\ chan = <<>>
    /\ receiverAlive = FALSE
    /\ taskPc = "none"
    /\ pending = Nothing
    /\ sleepLeft = 0
    /\ childAlive = FALSE
    /\ delivered = 0
    /\ ticksSinceStop = 0

(***************************************************************************)
(* The Kamal filter on its own: parse_logs and the filter step of the      *)
(* follow task, over every pattern list and every input the bounds allow   *)
(***************************************************************************)
PatternTexts == { <<"e", "R">>, <<"X">> }
PatternLists == UNION {[1..k -> PatternTexts] : k \in 0..MaxPatterns}

\* what docker logs --timestamps prints for `message` written at second `sec`
DockerLine(sec, message) == Stamp(sec) \o <<" ">> \o message

\* the lines docker logs can print: line k carries the timestamp of second k
LineLists ==
    UNION { {[k \in 1..n |-> DockerLine(k, f[k])] : f \in [1..n -> FollowMessages]}
            : n \in 0..MaxLines }

\* the lines the ssh channel can carry: an empty line, a blank one, stamped lines
\* out of order, a line of one word and a line whose first word is no timestamp
RawLines ==
    { <<>>, <<" ">>,
      DockerLine(1, <<"E", "r", "r">>), DockerLine(2, <<"o", "k">>),
      DockerLine(3, <<"e", "r", "x">>),
      <<"o", "k">>, <<"E", "r", "r", " ", "o", "k">> }
RawLineLists == UNION {[1..n -> RawLines] : n \in 0..MaxLines}

\* the readings of the clock: one among the stamps of the lines, one after them
Clock == {2, 9}

FilterIdle ==
    /\ params = [patterns |-> <<>>, exclude |-> <<>>, limit |-> 0]
    /\ raw_logs = <<>>
    /\ entries = Nothing
    /\ nread = 0
    /\ sent = <<>>
    /\ now = 0

\* let entries = self.parse_logs(&raw_logs, server, params)?
parse_logs_Call ==
    /\ params.limit > 0
    /\ entries = Nothing
    /\ entries' = Some(parse_logs(raw_logs, "server", params, now))
    /\ UNCHANGED <<params, raw_logs, nread, sent, now>>

\* the follow task reads the next line, parses it and hands the entry to
\* sender.send when its message passes the filter
task_FilterLine ==
    /\ nread < Len(raw_logs)
    /\ nread' = nread + 1
    /\ LET entry == parse_log_line_static(raw_logs[nread + 1], "server", service, now)
       IN  sent' = IF passes_filters(entry.message, params.patterns, params.exclude)
                   THEN Append(sent, entry)
                   ELSE sent
    /\ UNCHANGED <<params, raw_logs, entries, now>>

(***************************************************************************)
(* The TUI: App and the loop of run_app                                    *)
(***************************************************************************)
TuiIdle ==
    /\ appPc = "none"
    /\ focus = "Source"
    /\ source_mode = "CloudWatch"
    /\ follow_mode = FALSE
    /\ is_following = FALSE
    /\ follow_stop_flag = FALSE
    /\ sessions = 0
    /\ orphans = [unset |-> 0, set |-> 0]

\* App::next_focus
next_focus(f, m) ==
    CASE f = "Source" -> (IF m = "CloudWatch" THEN "Patterns" ELSE "DeployFile")
      [] f = "DeployFile" -> "Patterns"
      [] f = "Patterns" -> "Exclude"
      [] f = "Exclude" -> (IF m = "CloudWatch" THEN "Regions" ELSE "TimeRange")
      [] f = "Regions" -> "LogGroups"
      [] f = "LogGroups" -> "TimeRange"
      [] f = "TimeRange" -> "Limit"
      [] f = "Limit" -> "Results"
      [] f = "Results" -> "Source"

\* App::prev_focus
prev_focus(f, m) ==
    CASE f = "Source" -> "Results"
      [] f = "DeployFile" -> "Source"
      [] f = "Patterns" -> (IF m = "CloudWatch" THEN "Source" ELSE "DeployFile")
      [] f = "Exclude" -> "Patterns"
      [] f = "Regions" -> "Exclude"
      [] f = "LogGroups" -> "Regions"
      [] f = "TimeRange" -> (IF m = "CloudWatch" THEN "LogGroups" ELSE "Exclude")
      [] f = "Limit" -> "TimeRange"
      [] f = "Results" -> "Limit"

\* App::toggle_source
toggle_source(m) == IF m = "CloudWatch" THEN "Kamal" ELSE "CloudWatch"

\* The follow variables not named here belong to the task alone.
taskOwned == <<taskPc, pending, sleepLeft, childAlive, delivered, ticksSinceStop>>

\* A mutant of stop_following: the Receiver is kept.
stop_followingKeepsReceiver ==
    /\ stop_flag' = (stop_flag \/ follow_stop_flag)
    /\ is_following' = FALSE
    /\ follow_stop_flag' = FALSE
    /\ UNCHANGED <<receiverAlive, chan>>

\* App::stop_following: store true in the flag if one is held, is_following = false,
\* follow_receiver = None (the Receiver is dropped, and what the channel holds with
\* it), follow_stop_flag = None
stop_following ==
    /\ stop_flag' = (stop_flag \/ follow_stop_flag)
    /\ is_following' = FALSE
    /\ receiverAlive' = FALSE
    /\ chan' = <<>>
    /\ follow_stop_flag' = FALSE

\* follow_logs_channel returned Ok(()) and the handler stored the new Receiver and
\* flag in the App: the ssh child runs, the task is spawned. The Receiver and the
\* flag the App held before are dropped, the flag without a store; a task of an
\* earlier session that has not ended runs on, out of the App's reach.
StartSession ==
    /\ sessions < MaxSessions
    /\ sessions' = sessions + 1
    /\ orphans' = IF taskPc \in {"none", "ended"} THEN orphans
                  ELSE IF stop_flag THEN [orphans EXCEPT !.set = @ + 1]
                  ELSE [orphans EXCEPT !.unset = @ + 1]
    /\ stop_flag' = FALSE
    /\ chan' = <<>>
    /\ receiverAlive' = TRUE
    /\ taskPc' = "while"
    /\ pending' = Nothing
    /\ sleepLeft' = 0
    /\ childAlive' = TRUE
    /\ delivered' = 0
    /\ ticksSinceStop' = 0
    /\ follow_stop_flag' = TRUE
    /\ is_following' = TRUE

\* the top of run_app's loop: while let Ok(entry) = receiver.try_recv() puts every
\* entry the channel holds into app.results; Err (empty, or disconnected) ends the
\* while and nothing else. (The CloudWatch poll that follows touches app.results
\* alone.)
run_app_Recv ==
    /\ appPc = "recv"
    /\ appPc' = "event"
    /\ IF receiverAlive
       THEN /\ delivered' = IF delivered + Len(chan) > MaxDelivered THEN MaxDelivered
                            ELSE delivered + Len(chan)
            /\ chan' = <<>>
       ELSE UNCHANGED <<delivered, chan>>
    /\ UNCHANGED <<stop_flag, receiverAlive, taskPc, pending, sleepLeft, childAlive,
                   ticksSinceStop, focus, source_mode, follow_mode, is_following,
                   follow_stop_flag, sessions, orphans>>

\* event::poll(100 ms) returned false, or the key changes none of the fields above
run_app_NoEvent ==
    /\ appPc = "event"
    /\ appPc' = "recv"
    /\ UNCHANGED <<followVars, focus, source_mode, follow_mode, is_following,
                   follow_stop_flag, sessions, orphans>>

\* KeyCode::Tab
key_Tab ==
    /\ appPc = "event"
    /\ appPc' = "recv"
    /\ focus' = next_focus(focus, source_mode)
    /\ UNCHANGED <<followVars, source_mode, follow_mode, is_following, follow_stop_flag,
                   sessions, orphans>>

\* KeyCode::BackTab
key_BackTab ==
    /\ appPc = "event"
    /\ appPc' = "recv"
    /\ focus' = prev_focus(focus, source_mode)
    /\ UNCHANGED <<followVars, source_mode, follow_mode, is_following, follow_stop_flag,
                   sessions, orphans>>

\* Focus::Source with Left, Right, h or l: app.toggle_source()
key_ToggleSource ==
    /\ appPc = "event"
    /\ focus = "Source"
    /\ appPc' = "recv"
    /\ source_mode' = toggle_source(source_mode)
    /\ UNCHANGED <<followVars, focus, follow_mode, is_following, follow_stop_flag,
                   sessions, orphans>>

\* KeyCode::Enter with the focus off the results: a search, or in Kamal follow mode a
\* new follow session; there is no test of is_following
key_Enter ==
    /\ appPc = "event"
    /\ focus # "Results"
    /\ appPc' = "recv"
    /\ IF source_mode = "CloudWatch"
       THEN \/ \* no log group selected, or the time range does not parse
               UNCHANGED <<followVars, focus, is_following, follow_stop_flag, sessions, orphans>>
            \/ \* the search ran
               /\ is_following' = (is_following \/ follow_mode)
               /\ focus' = "Results"
               /\ UNCHANGED <<followVars, follow_stop_flag, sessions, orphans>>
       ELSE IF follow_mode
            THEN \/ \* follow_logs_channel => Ok(())
                    /\ StartSession
                    /\ focus' = "Results"
                 \/ \* the deploy file, the time range or follow_logs_channel failed
                    UNCHANGED <<followVars, focus, is_following, follow_stop_flag, sessions,
                                orphans>>
            ELSE \/ \* search_logs ran
                    /\ focus' = "Results"
                    /\ UNCHANGED <<followVars, is_following, follow_stop_flag, sessions, orphans>>
                 \/ \* the deploy file or the time range failed
                    UNCHANGED <<followVars, focus, is_following, follow_stop_flag, sessions,
                                orphans>>
    /\ UNCHANGED <<source_mode, follow_mode>>

\* KeyCode::Esc
key_Esc ==
    /\ appPc = "event"
    /\ appPc' = "recv"
    /\ IF is_following
       THEN /\ stop_following
            /\ UNCHANGED <<taskOwned, focus>>
       ELSE /\ focus' = IF focus = "Results" THEN "Patterns" ELSE focus
            /\ UNCHANGED <<followVars, is_following, follow_stop_flag>>
    /\ UNCHANGED <<source_mode, follow_mode, sessions, orphans>>

\* KeyCode::Char('f') outside the text inputs and the lists with a filter
key_f ==
    /\ appPc = "event"
    /\ focus \notin {"Patterns", "Exclude", "LogGroups", "DeployFile"}
    /\ appPc' = "recv"
    /\ IF is_following
       THEN /\ stop_following
            /\ UNCHANGED <<taskOwned, follow_mode, sessions, orphans>>
       ELSE IF focus = "Results"
            THEN /\ follow_mode' = TRUE
                 /\ IF source_mode = "CloudWatch"
                    THEN /\ is_following' = TRUE
                         /\ UNCHANGED <<followVars, follow_stop_flag, sessions, orphans>>
                    ELSE \/ \* follow_logs_channel(..).await.is_ok()
                            StartSession
                         \/ \* the deploy file, the time range or follow_logs_channel failed
                            UNCHANGED <<followVars, is_following, follow_stop_flag, sessions,
                                        orphans>>
            ELSE \* app.toggle_follow_mode(), not following
                 /\ follow_mode' = ~follow_mode
                 /\ UNCHANGED <<followVars, is_following, follow_stop_flag, sessions, orphans>>
    /\ UNCHANGED <<focus, source_mode>>

\* The task of an earlier session leaves its loop (its flag is set, its stream ended,
\* or a send found the Receiver gone), kills its ssh process and ends.
orphan_Exit ==
    /\ \E k \in {"unset", "set"} :
         /\ orphans[k] > 0
         /\ orphans' = [orphans EXCEPT ![k] = @ - 1]
    /\ UNCHANGED <<followVars, appPc, focus, source_mode, follow_mode, is_following,
                   follow_stop_flag, sessions>>

(***************************************************************************)
(* The command line front end: run_cloudwatch_search and run_kamal_search  *)
(* (main.rs) with display_results (output.rs)                              *)
(***************************************************************************)
NCli == 2
MaxRuns == 2

OutputModes == {"Interleaved", "Grouped", "Streaming", "Json"}

\* the timestamps of the entries a target can answer with, in the order of its list
TimeLists == {<<>>, <<3, 1>>, <<2>>}

\* the entries of target i of backend b with the timestamps ts
TargetEntries(b, i, ts) ==
    [k \in 1..Len(ts) |->
        [timestamp |-> ts[k], message |-> <<"o", "k">>,
         log_group |-> IF b = "kamal" THEN kamal_group(i) ELSE i, region |-> None]]

\* what the future of target i can return
CliOutcomes(b, i) ==
    {Ok(i, TargetEntries(b, i, ts)) : ts \in TimeLists} \cup {Err(i, <<"failed">>)}

\* search_single_log_group / search_server_logs of target i as one step: the future
\* completes with one of its outcomes
search_Completes(i) ==
    /\ returned = Nothing
    /\ pc[i] # "done"
    /\ \E out \in CliOutcomes(backend, i) : Finish(i, out, IF out.ok THEN None ELSE "failed")
    /\ UNCHANGED <<backend, log_groups, data, query_id, status, lastEvent, returned,
                   session, commands>>

\* entries.sort_by(|a, b| a.timestamp.cmp(&b.timestamp)) : stable, oldest first
RECURSIVE InsertAsc(_, _)
InsertAsc(e, sorted) ==
    IF sorted = <<>> THEN <<e>>
    ELSE IF Head(sorted).timestamp <= e.timestamp
         THEN <<Head(sorted)>> \o InsertAsc(e, Tail(sorted))
         ELSE <<e>> \o sorted

RECURSIVE SortAsc(_)
SortAsc(es) ==
    IF es = <<>> THEN <<>>
    ELSE InsertAsc(es[Len(es)], SortAsc(SubSeq(es, 1, Len(es) - 1)))

\* the loop `Ok(entries) => all_entries.extend(entries)` over the zipped results
RECURSIVE all_entries(_)
all_entries(rs) ==
    IF rs = <<>> THEN <<>>
    ELSE (IF Head(rs).ok THEN Head(rs).entries ELSE <<>>)
         \o all_entries(Tail(rs))

\* print_entry: one line of stdout for the entry
print_entry(e) == [kind |-> "entry", entry |-> e]

print_entries(es) == [k \in 1..Len(es) |-> print_entry(es[k])]

\* A mutant of display_interleaved: the entries are printed as collected.
display_interleavedUnsorted(es) ==
    <<[kind |-> "found", total |-> Len(es)]>> \o print_entries(es)

\* display_interleaved: "Found N results:" and the entries, oldest first
display_interleaved(es) ==
    <<[kind |-> "found", total |-> Len(es)]>> \o print_entries(SortAsc(es))

\* the keys of by_group
GroupsOf(es) == {es[k].log_group : k \in 1..Len(es)}

\* the orders in which `for (group_name, group_entries) in by_group` can visit the
\* keys of the HashMap: the order is not specified and differs from run to run
GroupOrders(es) ==
    {f \in [1..Cardinality(GroupsOf(es)) -> GroupsOf(es)] :
        \A a, b \in DOMAIN f : a # b => f[a] # f[b]}

\* by_group[g]: the entries of group g in the order they were pushed
RECURSIVE by_group(_, _)
by_group(es, g) ==
    IF es = <<>> THEN <<>>
    ELSE (IF Head(es).log_group = g THEN <<Head(es)>> ELSE <<>>) \o by_group(Tail(es), g)

\* display_grouped with the HashMap visited in `order`: per group a header and the
\* entries of the group, oldest first
RECURSIVE display_grouped(_, _)
display_grouped(es, order) ==
    IF order = <<>> THEN <<>>
    ELSE <<[kind |-> "group", group |-> Head(order), total |-> Len(by_group(es, Head(order)))]>>
         \o print_entries(SortAsc(by_group(es, Head(order))))
         \o display_grouped(es, Tail(order))

\* display_json: one document with the total and the entries, oldest first
display_json(es) == <<[kind |-> "json", total |-> Len(es), results |-> SortAsc(es)]>>

\* display_results
display_results(es, mode, order) ==
    IF es = <<>>
    THEN IF mode = "Json" THEN <<[kind |-> "json", total |-> 0, results |-> <<>>]>>
         ELSE <<[kind |-> "none"]>>
    ELSE IF mode = "Interleaved" THEN display_interleaved(es)
    ELSE IF mode = "Grouped" THEN display_grouped(es, order)
    ELSE IF mode = "Json" THEN display_json(es)
    ELSE display_interleaved(es)

\* the Streaming arm: after the await, per target "Querying <group>..." and the
\* entries of an Ok in the order of its list
RECURSIVE streaming_stdout(_)
streaming_stdout(rs) ==
    IF rs = <<>> THEN <<>>
    ELSE <<[kind |-> "querying", group |-> log_groups[Head(rs).target].log_group]>>
         \o (IF Head(rs).ok THEN print_entries(Head(rs).entries) ELSE <<>>)
         \o streaming_stdout(Tail(rs))

\* eprintln!("Error {}: {}", group, e) for every Err
RECURSIVE error_lines(_)
error_lines(rs) ==
    IF rs = <<>> THEN <<>>
    ELSE (IF Head(rs).ok THEN <<>>
          ELSE <<[group |-> log_groups[Head(rs).target].log_group,
                  err |-> Head(rs).err]>>)
         \o error_lines(Tail(rs))

\* run_cloudwatch_search / run_kamal_search from the return of the await to the
\* return of the function: the match on output_mode, and Ok(())
run_search_Output ==
    /\ returned # Nothing
    /\ ret = Nothing
    /\ \E order \in GroupOrders(all_entries(Get(returned))) :
         stdout' = IF output_mode = "Streaming"
                   THEN streaming_stdout(Get(returned))
                   ELSE display_results(all_entries(Get(returned)), output_mode, order)
    /\ stderr' = IF output_mode = "Json" THEN <<>> ELSE error_lines(Get(returned))
    /\ ret' = Some("Ok")
    /\ UNCHANGED <<output_mode, earlier>>

\* the same command is run once more and its searches answer as before
run_search_Again ==
    /\ ret # Nothing
    /\ Len(earlier) < MaxRuns - 1
    /\ earlier' = Append(earlier, stdout)
    /\ stdout' = <<>>
    /\ stderr' = <<>>
    /\ ret' = Nothing
    /\ UNCHANGED output_mode

(***************************************************************************)
(* The search of the TUI: the Enter handler of run_app around its await of *)
(* search_log_groups / search_logs                                         *)
(***************************************************************************)
\* errors.join("; ")
RECURSIVE join(_, _)
join(texts, sep) ==
    IF texts = <<>> THEN <<>>
    ELSE IF Len(texts) = 1 THEN texts[1]
    ELSE texts[1] \o sep \o join(Tail(texts), sep)

\* the loop `Err(e) => errors.push(e.to_string())` over the results
RECURSIVE errors(_)
errors(rs) ==
    IF rs = <<>> THEN <<>>
    ELSE (IF Head(rs).ok THEN <<>> ELSE <<Head(rs).err>>) \o errors(Tail(rs))

\* the if / else if / else on errors and count that sets app.search_state
SearchStateAfter(errs, count) ==
    IF errs = <<>> THEN [kind |-> "Complete", count |-> count]
    ELSE IF count > 0 THEN [kind |-> "Complete", count |-> count]
    ELSE [kind |-> "Error", message |-> join(errs, <<";", " ">>)]

\* KeyCode::Enter from the return of the await to the end of the arm: the entries
\* of the Ok results newest first into app.results, the state from the errors and
\* the count; `errors` is a local of the handler and ends with it
key_Enter_Results ==
    /\ appPc = "event"
    /\ returned # Nothing
    /\ search_state.kind = "Searching"
    /\ results' = SortDesc(all_entries(Get(returned)))
    /\ search_state' = SearchStateAfter(errors(Get(returned)),
                                        Len(all_entries(Get(returned))))
    /\ is_following' = (is_following \/ (source_mode = "CloudWatch" /\ follow_mode))
    /\ focus' = "Results"
    /\ appPc' = "recv"
    /\ UNCHANGED <<source_mode, follow_mode, follow_stop_flag, sessions, orphans>>

(***************************************************************************)
(* RegionalLogGroup::parse and is_valid_region_format                      *)
(***************************************************************************)
MaxSegments == 3
MaxParts == 3
MaxCap == 3
MaxPages == 3
MaxLoops == 2

\* s.split(ch).collect(): the texts between the occurrences of `ch`
RECURSIVE split(_, _)
split(t, ch) ==
    LET at == find(t, ch)
    IN  IF at = Nothing THEN <<t>>
        ELSE <<SubSeq(t, 1, Get(at) - 1)>> \o split(SubSeq(t, Get(at) + 1, Len(t)), ch)

\* char::is_ascii_lowercase over the letters of the modelled texts
LowercaseLetters == {"a", "b", "e", "p", "s", "t", "u"}
is_ascii_lowercase(ch) == ch \in LowercaseLetters

\* p.parse::<u32>().is_ok(): an optional '+' and then one digit or more (the texts
\* of the model are too short to pass u32::MAX)
parses_as_u32(t) ==
    LET digits == IF t # <<>> /\ t[1] = "+" THEN Tail(t) ELSE t
    IN  digits # <<>> /\ \A k \in 1..Len(digits) : digits[k] \in Digits

\* is_valid_region_format
is_valid_region_format(s) ==
    LET parts == split(s, "-")
    IN  IF Len(parts) < 3 THEN FALSE
        ELSE IF ~parses_as_u32(parts[Len(parts)]) THEN FALSE
        ELSE IF Len(parts[1]) # 2 \/ ~(\A k \in 1..Len(parts[1]) : is_ascii_lowercase(parts[1][k]))
             THEN FALSE
        ELSE TRUE

\* RegionalLogGroup::parse; the region is an Option of a text
parse(text) ==
    LET trimmed == trim(text)
        colon_pos == find(trimmed, ":")
        potential_region ==
            IF colon_pos = Nothing THEN <<>> ELSE SubSeq(trimmed, 1, Get(colon_pos) - 1)
    IN  IF colon_pos # Nothing /\ is_valid_region_format(potential_region)
        THEN [region |-> Some(potential_region),
              log_group |-> SubSeq(trimmed, Get(colon_pos) + 1, Len(trimmed))]
        ELSE [region |-> Nothing, log_group |-> trimmed]

\* the segments a target text is built from
Segments ==
    { <<"u", "s">>, <<"e", "a", "s", "t">>, <<"U", "S">>, <<"1">>, <<"+", "1">>, <<>> }

\* the segments joined by hyphens
RECURSIVE Hyphenated(_)
Hyphenated(segs) ==
    IF Len(segs) = 1 THEN segs[1] ELSE segs[1] \o <<"-">> \o Hyphenated(Tail(segs))

\* what follows the left-hand side: nothing, or a colon and a resource that is
\* empty, plain, or holds a colon itself
Remainders ==
    { <<>>, <<":">>, <<":", "a", "p", "p">>, <<":", "a", ":", "b">> }

\* the target texts handed to parse, bare and with white space around them
TargetTexts ==
    LET bare == { Hyphenated(segs) \o r :
                    segs \in UNION {[1..n -> Segments] : n \in 1..MaxSegments},
                    r \in Remainders }
    IN  bare \cup { <<" ">> \o t \o <<"\n">> : t \in bare }

\* let rg = RegionalLogGroup::parse(&input)
parse_Call ==
    /\ input # <<>>
    /\ parsed = Nothing
    /\ parsed' = Some(parse(input))
    /\ UNCHANGED input

(***************************************************************************)
(* time.rs: parse_duration, to_docker_since, TimeRange                     *)
(***************************************************************************)
\* The texts of this section are written over digits, '.', whitespace, the
\* letters s m h d w (and H D in upper case) and letters no unit begins with.
\* Over these letters the unit group of DURATION_REGEX matches one letter:
\* its longer alternatives (sec, min, hours, ...) need letters the texts lack.
UnitLetters == {"s", "m", "h", "d", "w"}

\* f64: an integral value n is <<n, "">> and is computed exactly; any other value
\* is <<its integer part, its shortest decimal form>>, and the arithmetic on it
\* is the IEEE-754 binary64 arithmetic, tabulated for the values the texts reach
F64(n) == <<n, "">>

\* x + v in binary64 (round to nearest, ties to even), for the sums of 0.1, 0.2, 0.7
F64Sums ==
    { <<<<0, "0.1">>, <<0, "0.1">>, <<0, "0.2">>>>,
      <<<<0, "0.1">>, <<0, "0.2">>, <<0, "0.30000000000000004">>>>,
      <<<<0, "0.1">>, <<0, "0.7">>, <<0, "0.7999999999999999">>>>,
      <<<<0, "0.2">>, <<0, "0.1">>, <<0, "0.30000000000000004">>>>,
      <<<<0, "0.2">>, <<0, "0.2">>, <<0, "0.4">>>>,
      <<<<0, "0.2">>, <<0, "0.7">>, <<0, "0.8999999999999999">>>>,
      <<<<0, "0.30000000000000004">>, <<0, "0.1">>, <<0, "0.4">>>>,
      <<<<0, "0.30000000000000004">>, <<0, "0.2">>, <<0, "0.5">>>>,
      <<<<0, "0.30000000000000004">>, <<0, "0.7">>, <<1, "">>>>,
      <<<<0, "0.4">>, <<0, "0.1">>, <<0, "0.5">>>>,
      <<<<0, "0.4">>, <<0, "0.2">>, <<0, "0.6000000000000001">>>>,
      <<<<0, "0.4">>, <<0, "0.7">>, <<1, "1.1">>>>,
      <<<<0, "0.5">>, <<0, "0.1">>, <<0, "0.6">>>>,
      <<<<0, "0.5">>, <<0, "0.2">>, <<0, "0.7">>>>,
      <<<<0, "0.5">>, <<0, "0.7">>, <<1, "1.2">>>>,
      <<<<0, "0.6000000000000001">>, <<0, "0.1">>, <<0, "0.7000000000000001">>>>,
      <<<<0, "0.6000000000000001">>, <<0, "0.2">>, <<0, "0.8">>>>,
      <<<<0, "0.6000000000000001">>, <<0, "0.7">>, <<1, "1.3">>>>,
      <<<<0, "0.7">>, <<0, "0.1">>, <<0, "0.7999999999999999">>>>,
      <<<<0, "0.7">>, <<0, "0.2">>, <<0, "0.8999999999999999">>>>,
      <<<<0, "0.7">>, <<0, "0.7">>, <<1, "1.4">>>>,
      <<<<0, "0.7999999999999999">>, <<0, "0.1">>, <<0, "0.8999999999999999">>>>,
      <<<<0, "0.7999999999999999">>, <<0, "0.2">>, <<1, "">>>>,
      <<<<0, "0.7999999999999999">>, <<0, "0.7">>, <<1, "1.5">>>>,
      <<<<0, "0.8999999999999999">>, <<0, "0.1">>, <<0, "0.9999999999999999">>>>,
      <<<<0, "0.8999999999999999">>, <<0, "0.2">>, <<1, "1.0999999999999999">>>>,
      <<<<0, "0.8999999999999999">>, <<0, "0.7">>, <<1, "1.5999999999999999">>>>,
      <<<<0, "0.9999999999999999">>, <<0, "0.1">>, <<1, "1.0999999999999999">>>>,
      <<<<0, "0.9999999999999999">>, <<0, "0.2">>, <<1, "1.2">>>>,
      <<<<0, "0.9999999999999999">>, <<0, "0.7">>, <<1, "1.6999999999999997">>>>,
      <<<<1, "">>, <<0, "0.1">>, <<1, "1.1">>>>,
      <<<<1, "">>, <<0, "0.2">>, <<1, "1.2">>>>,
      <<<<1, "">>, <<0, "0.7">>, <<1, "1.7">>>>,
      <<<<1, "1.0999999999999999">>, <<0, "0.1">>, <<1, "1.2">>>>,
      <<<<1, "1.0999999999999999">>, <<0, "0.2">>, <<1, "1.2999999999999998">>>>,
      <<<<1, "1.0999999999999999">>, <<0, "0.7">>, <<1, "1.7999999999999998">>>>,
      <<<<1, "1.1">>, <<0, "0.1">>, <<1, "1.2000000000000002">>>>,
      <<<<1, "1.1">>, <<0, "0.2">>, <<1, "1.3">>>>,
      <<<<1, "1.1">>, <<0, "0.7">>, <<1, "1.8">>>>,
      <<<<1, "1.4">>, <<0, "0.1">>, <<1, "1.5">>>>,
      <<<<1, "1.4">>, <<0, "0.2">>, <<1, "1.5999999999999999">>>>,
      <<<<1, "1.4">>, <<0, "0.7">>, <<2, "2.0999999999999996">>>>,
      <<<<1, "1.5">>, <<0, "0.1">>, <<1, "1.6">>>>,
      <<<<1, "1.5">>, <<0, "0.2">>, <<1, "1.7">>>>,
      <<<<1, "1.5">>, <<0, "0.7">>, <<2, "2.2">>>>,
      <<<<1, "1.5999999999999999">>, <<0, "0.1">>, <<1, "1.7">>>>,
      <<<<1, "1.5999999999999999">>, <<0, "0.2">>, <<1, "1.7999999999999998">>>>,
      <<<<1, "1.5999999999999999">>, <<0, "0.7">>, <<2, "2.3">>>>,
      <<<<2, "2.0999999999999996">>, <<0, "0.1">>, <<2, "2.1999999999999997">>>>,
      <<<<2, "2.0999999999999996">>, <<0, "0.2">>, <<2, "2.3">>>>,
      <<<<2, "2.0999999999999996">>, <<0, "0.7">>, <<2, "2.8">>>> }

f64_add(x, v) ==
    IF x[2] = "" /\ v[2] = "" THEN F64(x[1] + v[1])
    ELSE IF x = F64(0) THEN v
    ELSE (CHOOSE e \in F64Sums : e[1] = x /\ e[2] = v)[3]

\* value * multiplier in binary64: 1.5 * 3600.0 is 5400.0, x * 1.0 is x
f64_mul(value, multiplier) ==
    IF value[2] = "" THEN F64(value[1] * multiplier)
    ELSE IF multiplier = 1 THEN value
    ELSE (CHOOSE e \in {<<<<1, "1.5">>, 3600, F64(5400)>>} :
              e[1] = value /\ e[2] = multiplier)[3]

\* total_seconds as i64: the cast truncates toward zero
as_i64(x) == x[1]

RECURSIVE DecimalValue(_)
DecimalValue(t) ==
    IF t = <<>> THEN 0 ELSE 10 * DecimalValue(SubSeq(t, 1, Len(t) - 1)) + DigitValue(t[Len(t)])

\* cap[1].parse::<f64>()
parse_f64(t) ==
    IF \A k \in 1..Len(t) : t[k] \in Digits THEN F64(DecimalValue(t))
    ELSE (CHOOSE e \in {<<<<"0", ".", "1">>, <<0, "0.1">>>>, <<<<"0", ".", "2">>, <<0, "0.2">>>>,
                        <<<<"0", ".", "7">>, <<0, "0.7">>>>, <<<<"1", ".", "5">>, <<1, "1.5">>>>} :
              e[1] = t)[2]

\* the last index of the run of characters of cs that starts at i (i - 1 if
\* t[i] is not in cs): the greedy \d+ and \s* of DURATION_REGEX
RunEnd(t, i, cs) ==
    CHOOSE j \in (i - 1)..Len(t) :
        /\ \A k \in i..j : t[k] \in cs
        /\ j = Len(t) \/ t[j + 1] \notin cs

\* DURATION_REGEX matched at position i of t: (\d+(?:\.\d+)?)\s*(unit).  A
\* shorter \d+ or a dropped fraction leaves a digit or a '.' where the unit
\* has to be, so backtracking finds nothing the greedy attempt does not
MatchAt(t, i) ==
    IF t[i] \notin Digits THEN Nothing
    ELSE LET j == RunEnd(t, i, Digits)
             fraction == j + 2 <= Len(t) /\ t[j + 1] = "." /\ t[j + 2] \in Digits
             k == IF fraction THEN RunEnd(t, j + 2, Digits) ELSE j
             m == RunEnd(t, k + 1, Whitespace)
         IN  IF m + 1 <= Len(t) /\ t[m + 1] \in UnitLetters
             THEN Some([number |-> SubSeq(t, i, k), unit |-> t[m + 1], end |-> m + 1])
             ELSE Nothing

\* DURATION_REGEX.captures_iter: the leftmost matches from position i on, each
\* search resuming behind the match before it
RECURSIVE captures_iter(_, _)
captures_iter(t, i) ==
    IF i > Len(t) THEN <<>>
    ELSE IF IsSome(MatchAt(t, i))
         THEN <<Get(MatchAt(t, i))>> \o captures_iter(t, Get(MatchAt(t, i)).end + 1)
         ELSE captures_iter(t, i + 1)

\* the multiplier of a unit, chosen by the first character of the unit
multiplier(unit) ==
    CASE unit = "s" -> 1
      [] unit = "m" -> 60
      [] unit = "h" -> 3600
      [] unit = "d" -> 86400
      [] unit = "w" -> 604800

\* the loop of parse_duration: total_seconds += value * multiplier
RECURSIVE total_seconds(_, _)
total_seconds(caps, acc) ==
    IF caps = <<>> THEN acc
    ELSE total_seconds(Tail(caps),
                       f64_add(acc, f64_mul(parse_f64(Head(caps).number),
                                            multiplier(Head(caps).unit))))

DurationOk(n) == [ok |-> TRUE, seconds |-> n, err |-> ""]
DurationErr(msg) == [ok |-> FALSE, seconds |-> 0, err |-> msg]

\* parse_duration without its check that something matched
parse_durationUnchecked(text) ==
    LET t == to_lowercase(trim(text))
    IN  IF t = <<>> THEN DurationErr("Empty duration string")
        ELSE DurationOk(as_i64(total_seconds(captures_iter(t, 1), F64(0))))

\* parse_duration
parse_duration(text) ==
    LET t == to_lowercase(trim(text))
        caps == captures_iter(t, 1)
    IN  IF t = <<>> THEN DurationErr("Empty duration string")
        ELSE IF caps = <<>> THEN DurationErr("Invalid duration format")
        ELSE DurationOk(as_i64(total_seconds(caps, F64(0))))

\* to_docker_since: Ok(the trimmed lowercase text) or the error of parse_duration
to_docker_since(text) ==
    IF parse_duration(text).ok
    THEN [ok |-> TRUE, since |-> to_lowercase(trim(text)), err |-> ""]
    ELSE [ok |-> FALSE, since |-> <<>>, err |-> parse_duration(text).err]

\* the <number><unit> components of the modelled inputs: whole numbers (and 1.5h,
\* whose product is whole), and the tenths of a second
WholeComponents ==
    {<<"1", "h">>, <<"3", "0", "m">>, <<"9", "0", "m">>, <<"2", "d">>, <<"1", "2", "h">>, <<"1", "w">>, <<"1", ".", "5", "h">>}
TenthComponents == {<<"0", ".", "1", "s">>, <<"0", ".", "2", "s">>, <<"0", ".", "7", "s">>}

RECURSIVE concat(_)
concat(ps) == IF ps = <<>> THEN <<>> ELSE Head(ps) \o concat(Tail(ps))

\* the sequences of one to MaxParts components of one family
ComponentLists ==
    UNION {[1..n -> WholeComponents] \cup [1..n -> TenthComponents] : n \in 1..MaxParts}

\* inputs that are no concatenation of components: empty, blank, without a
\* number, without a unit, with a unit the program does not know, and padded,
\* upper-case and spaced spellings of a component
OtherDurationTexts ==
    {<<>>, <<" ">>, <<" ", "\n">>, <<"a", "b", "c">>, <<"5", "x">>, <<"5">>, <<"h">>, <<"1", ".", "h">>, <<"x", "5", " ", "h">>, <<" ", "2", "H", " ">>, <<"7", ".", "1", ".", "5", "H">>, <<"1", "2", "x", "3", "h">>}

\* parse_datetime over the modelled texts, in seconds since 2026-01-01T00:00:00Z:
\* RFC 3339, "%Y-%m-%d %H:%M:%S", "%Y-%m-%d %H:%M" and "%Y-%m-%d" parse, any
\* other text is an error
DateTexts ==
    {"2026-01-01", "2026-01-01 00:30", "2026-01-01T01:00:00Z", "2026-01-02 00:00:00",
     "yesterday"}

parse_datetime(text) ==
    CASE text = "2026-01-01" -> Some(0)
      [] text = "2026-01-01 00:30" -> Some(1800)
      [] text = "2026-01-01T01:00:00Z" -> Some(3600)
      [] text = "2026-01-02 00:00:00" -> Some(86400)
      [] OTHER -> Nothing

\* Utc::now() when the window is built, in the same seconds (the filter's clock
\* `now` counts the seconds of its own minute)
utc_now == 7200

TimeRangeOk(s, e) == [ok |-> TRUE, start |-> s, end |-> e]
TimeRangeErr == [ok |-> FALSE, start |-> 0, end |-> 0]

\* TimeRange::from_explicit
from_explicit(s, e) ==
    IF ~IsSome(parse_datetime(s)) THEN TimeRangeErr
    ELSE IF e = None THEN TimeRangeOk(Get(parse_datetime(s)), utc_now)
    ELSE IF ~IsSome(parse_datetime(e)) THEN TimeRangeErr
    ELSE TimeRangeOk(Get(parse_datetime(s)), Get(parse_datetime(e)))

\* TimeRange::from_relative
from_relative(text) ==
    IF parse_duration(text).ok
    THEN TimeRangeOk(utc_now - parse_duration(text).seconds, utc_now)
    ELSE TimeRangeErr

\* parse_duration(&duration_str)
parse_duration_Call ==
    /\ duration = Nothing
    /\ duration' = Some(parse_duration(duration_str))
    /\ UNCHANGED <<components, duration_str, docker_since, start_str, end_str, time_range>>

\* to_docker_since(&duration_str)
to_docker_since_Call ==
    /\ docker_since = Nothing
    /\ docker_since' = Some(to_docker_since(duration_str))
    /\ UNCHANGED <<components, duration_str, duration, start_str, end_str, time_range>>

\* run_cloudwatch_search: `if let Some(start_str) = start { from_explicit(..)? }`
from_explicit_Call ==
    /\ time_range = Nothing
    /\ start_str # None
    /\ time_range' = Some(from_explicit(start_str, end_str))
    /\ UNCHANGED <<components, duration_str, duration, docker_since, start_str, end_str>>

\* run_cloudwatch_search: `else { from_relative(&last)? }`
from_relative_Call ==
    /\ time_range = Nothing
    /\ start_str = None
    /\ time_range' = Some(from_relative(duration_str))
    /\ UNCHANGED <<components, duration_str, duration, docker_since, start_str, end_str>>

(***************************************************************************)
(* kamal/logs.rs: the --tail of fetch_docker_logs                          *)
(***************************************************************************)
\* A usize (64 bits) is four 16-bit limbs, the least significant first.
Limb == 65536

\* `resolved_limit as usize`: the i32 is sign-extended, so a negative limit x
\* becomes 2^64 + x, whose bits are the complement of those of -(x + 1)
as_usize(x) ==
    IF x >= 0 THEN <<x % Limb, x \div Limb, 0, 0>>
    ELSE LET y == -(x + 1)
         IN  <<(Limb - 1) - (y % Limb), (Limb - 1) - (y \div Limb), Limb - 1, Limb - 1>>

\* the limbs of ls * k + carry, and behind them the carry out of the last limb
RECURSIVE mul_limbs(_, _, _)
mul_limbs(ls, k, carry) ==
    IF ls = <<>> THEN <<carry>>
    ELSE <<(Head(ls) * k + carry) % Limb>> \o
         mul_limbs(Tail(ls), k, (Head(ls) * k + carry) \div Limb)

\* usize::max against a number below 2^16
usize_max(a, n) ==
    IF a[1] >= n \/ \E k \in 2..Len(a) : a[k] > 0 THEN a
    ELSE <<n>> \o [k \in 1..(Len(a) - 1) |-> 0]

\* `params.limit * 10` and `fetch_limit.max(1000)`: the product panics where
\* overflow is checked and wraps to its low 64 bits where it is not
fetch_limit(cap, checked) ==
    LET product == mul_limbs(cap, 10, 0)
    IN  IF product[5] > 0 /\ checked
        THEN [panic |-> TRUE, tail |-> <<>>]
        ELSE [panic |-> FALSE, tail |-> usize_max(SubSeq(product, 1, 4), 1000)]

\* the limits of the command line: the small ones, those around the default
\* and around 1000 / 10, and the ends of i32
Limits ==
    (-MaxCap..MaxCap) \cup {99, 100, 101, 1000, 214748364, 2147483647, -2147483647 - 1}

\* fetch_docker_logs up to the command it builds, with the limit
\* run_kamal_search cast to usize and the since it got from to_docker_since
fetch_docker_logs_Command ==
    /\ docker_cmd = Nothing
    /\ IsSome(docker_since)
    /\ Get(docker_since).ok
    /\ docker_cmd' = Some([since |-> Get(docker_since).since] @@
                          fetch_limit(as_usize(cli_limit), overflow_checks))
    /\ UNCHANGED <<cli_limit, overflow_checks>>

(***************************************************************************)
(* aws/logs.rs: list_log_groups                                            *)
(***************************************************************************)
\* A describe_log_groups response: log_groups is an Option of a list of groups,
\* each with an Option of a name, and next_token an Option of a token.
Tokens == {"t1", "t2"}
GroupLists == {<<>>, <<"api">>, <<"web", None>>, <<None, "api", "web">>}
Pages == [log_groups : {Nothing} \cup {Some(gs) : gs \in GroupLists},
          next_token : {None} \cup Tokens]

\* `if let Some(groups) = response.log_groups { for group in groups { if let
\* Some(name) = group.log_group_name { log_groups.push(name) } } }`
push_names(acc, response) ==
    IF IsSome(response.log_groups)
    THEN acc \o SelectSeq(Get(response.log_groups), LAMBDA name : name # None)
    ELSE acc

ListOk(names) == [ok |-> TRUE, log_groups |-> names]
ListErr == [ok |-> FALSE, log_groups |-> <<>>]

\* an iteration that answers a failed request with what it has listed so far
list_log_groups_RequestPartial ==
    /\ listPc = "loop"
    /\ requests' = Append(requests, next_token)
    /\ \/ /\ list_ret' = Some(ListOk(group_names))
          /\ listPc' = "done"
          /\ UNCHANGED <<next_token, group_names, responses>>
       \/ \E response \in Pages :
            /\ Len(requests) = MaxPages - 1 => response.next_token = None
            /\ responses' = Append(responses, response)
            /\ group_names' = push_names(group_names, response)
            /\ next_token' = response.next_token
            /\ IF response.next_token = None
               THEN list_ret' = Some(ListOk(group_names')) /\ listPc' = "done"
               ELSE UNCHANGED list_ret /\ listPc' = "loop"

\* one iteration of the loop of list_log_groups: the request carries next_token
\* when it is Some; `request.send().await?` returns the error of a failed
\* request; a response without a token breaks the loop to Ok(log_groups).  The
\* listing of the model has MaxPages pages at most: the last one has no token
list_log_groups_Request ==
    /\ listPc = "loop"
    /\ requests' = Append(requests, next_token)
    /\ \/ /\ list_ret' = Some(ListErr)
          /\ listPc' = "done"
          /\ UNCHANGED <<next_token, group_names, responses>>
       \/ \E response \in Pages :
            /\ Len(requests) = MaxPages - 1 => response.next_token = None
            /\ responses' = Append(responses, response)
            /\ group_names' = push_names(group_names, response)
            /\ next_token' = response.next_token
            /\ IF response.next_token = None
               THEN list_ret' = Some(ListOk(group_names')) /\ listPc' = "done"
               ELSE UNCHANGED list_ret /\ listPc' = "loop"

(***************************************************************************)
(* tui/app.rs: app.results while a follow session runs                     *)
(***************************************************************************)
\* `if app.results.len() > 10000`, `.take(100)`
results_cap == 10000
take_n == 100

\* the body of `while let Ok(entry) = receiver.try_recv()`: the entry goes to
\* the front, and one entry is popped off the end when the buffer has passed
\* the cap
receive(buf, entry) ==
    LET grown == <<entry>> \o buf
    IN  IF Len(grown) > results_cap THEN SubSeq(grown, 1, Len(grown) - 1) ELSE grown

RECURSIVE receive_all(_, _)
receive_all(buf, batch) ==
    IF batch = <<>> THEN buf ELSE receive_all(receive(buf, Head(batch)), Tail(batch))

\* app.results.iter().take(100).any(|e| e.timestamp == entry.timestamp
\*                                      && e.message == entry.message)
seen(buf, entry) ==
    \E k \in 1..(IF Len(buf) < take_n THEN Len(buf) ELSE take_n) :
        buf[k].timestamp = entry.timestamp /\ buf[k].message = entry.message

\* `for entry in entries { if !seen { app.results.insert(0, entry) } }`: the
\* loop over es, evaluated as the loop over its first half followed by the loop
\* over its second half (the test on Len(first) has the first half evaluated
\* before the second half starts, which keeps the evaluation shallow)
RECURSIVE insert_unseen(_, _)
insert_unseen(buf, es) ==
    IF es = <<>> THEN buf
    ELSE IF Len(es) = 1 THEN (IF seen(buf, es[1]) THEN buf ELSE es \o buf)
    ELSE LET half == Len(es) \div 2
             first == insert_unseen(buf, SubSeq(es, 1, half))
         IN  IF Len(first) >= Len(buf)
             THEN insert_unseen(first, SubSeq(es, half + 1, Len(es)))
             ELSE first

\* `for result in results { if let Ok(entries) = result { .. } }`, then the
\* sort and the truncation of the poll
RECURSIVE merge_results(_, _)
merge_results(buf, rs) ==
    IF rs = <<>> THEN buf
    ELSE merge_results(IF Head(rs).ok THEN insert_unseen(buf, Head(rs).entries) ELSE buf,
                       Tail(rs))

poll_results(buf, rs) == Truncate(SortDesc(merge_results(buf, rs)), results_cap)

\* the entries of the modelled logs: those of a Kamal server, and those of two
\* CloudWatch groups, told apart by their messages
KamalEntry(t) ==
    [timestamp |-> t, message |-> <<"k">>, log_group |-> kamal_group(1), region |-> None]
GroupEntry(g, t) ==
    [timestamp |-> t, message |-> IF g = 1 THEN <<"a">> ELSE <<"b">>, log_group |-> g,
     region |-> None]

\* the n entries up to timestamp hi, newest first (`sort @timestamp desc`)
KamalRange(hi, n) == [k \in 1..n |-> KamalEntry(hi + 1 - k)]
GroupRange(g, hi, n) == [k \in 1..n |-> GroupEntry(g, hi + 1 - k)]

\* what a Kamal search or an earlier session left in app.results: the servers
\* return up to the limit each, so that two of them can pass the cap
KamalBuffers ==
    {<<>>, KamalRange(2, 2), KamalRange(results_cap, results_cap),
     KamalRange(results_cap + 1, results_cap + 1)}

\* what try_recv yields in one iteration of the loop
Batches ==
    {<<KamalEntry(results_cap + 2)>>,
     <<KamalEntry(results_cap + 2), KamalEntry(results_cap + 3)>>}

\* a CloudWatch group of the model holds just over half of take_n entries in
\* the polled minute, so that two groups hold more than take_n
PerGroup == take_n \div 2 + 1

\* what a CloudWatch search left in app.results: nothing, one group, two groups
CloudWatchBuffers ==
    {<<>>, GroupRange(1, PerGroup, PerGroup),
     SortDesc(GroupRange(1, PerGroup, PerGroup) \o GroupRange(2, PerGroup, PerGroup))}

\* what search_log_groups returns to a poll, by target: the entries of the
\* last minute, with or without a new one, or an error
PollAnswers ==
    {<<Ok(1, GroupRange(1, PerGroup, PerGroup))>>,
     <<Ok(1, GroupRange(1, PerGroup + 1, PerGroup))>>,
     <<Ok(1, GroupRange(1, PerGroup, PerGroup)), Ok(2, GroupRange(2, PerGroup, PerGroup))>>,
     <<Err(1, <<"transport">>), Ok(2, GroupRange(2, PerGroup + 1, PerGroup))>>}

\* the top of run_app's loop with a Receiver that holds entries
run_app_Receive ==
    /\ appPc = "recv"
    /\ receiverAlive
    /\ loops < MaxLoops
    /\ \E batch \in Batches :
         /\ results' = receive_all(results, batch)
         /\ search_state' = [kind |-> "Complete", count |-> Len(results')]
    /\ loops' = loops + 1
    /\ appPc' = "event"
    /\ UNCHANGED <<followVars, focus, source_mode, follow_mode, is_following,
                   follow_stop_flag, sessions, orphans>>

\* the top of run_app's loop in CloudWatch follow mode, POLL_INTERVAL after the
\* last poll, with a group selected
run_app_Poll ==
    /\ appPc = "recv"
    /\ is_following
    /\ source_mode = "CloudWatch"
    /\ loops < MaxLoops
    /\ \E rs \in PollAnswers :
         /\ results' = poll_results(results, rs)
         /\ search_state' = [kind |-> "Complete", count |-> Len(results')]
    /\ loops' = loops + 1
    /\ appPc' = "event"
    /\ UNCHANGED <<followVars, focus, source_mode, follow_mode, is_following,
                   follow_stop_flag, sessions, orphans>>

\* KeyCode::Enter as it acts on app.results: a search that runs clears the
\* buffer and stores what it found; a Kamal follow session starts on the
\* cleared buffer; with no group selected nothing is touched
key_Enter_Search ==
    /\ key_Enter
    /\ results' \in
         IF source_mode = "Kamal"
         THEN (IF follow_mode \/ focus' # "Results" THEN {<<>>} ELSE KamalBuffers)
         ELSE (IF focus' = "Results" THEN CloudWatchBuffers ELSE {results, <<>>})
    /\ search_state' =
         IF focus' # "Results"
         THEN (IF results' = results THEN search_state
               ELSE [kind |-> "Error", message |-> <<"e">>])
         ELSE IF source_mode = "Kamal" /\ follow_mode THEN [kind |-> "Searching"]
         ELSE [kind |-> "Complete", count |-> Len(results')]
    /\ UNCHANGED loops

(***************************************************************************)
(* The front ends at rest                                                  *)
(***************************************************************************)
CliIdle ==
    /\ output_mode = None
    /\ stdout = <<>>
    /\ stderr = <<>>
    /\ ret = Nothing
    /\ earlier = <<>>

AppSearchIdle ==
    /\ search_state = [kind |-> "Idle"]
    /\ results = <<>>

ParseIdle ==
    /\ input = <<>>
    /\ parsed = Nothing

TimeIdle ==
    /\ components = <<>>
    /\ duration_str = <<>>
    /\ duration = Nothing
    /\ docker_since = Nothing
    /\ start_str = None
    /\ end_str = None
    /\ time_range = Nothing

FetchIdle ==
    /\ cli_limit = 0
    /\ overflow_checks = FALSE
    /\ docker_cmd = Nothing

ListIdle ==
    /\ listPc = "done"
    /\ next_token = None
    /\ group_names = <<>>
    /\ requests = <<>>
    /\ responses = <<>>
    /\ list_ret = Nothing

UtilIdle == TimeIdle /\ FetchIdle /\ ListIdle /\ loops = 0

FrontIdle == CliIdle /\ AppSearchIdle /\ ParseIdle /\ UtilIdle

(***************************************************************************)
(* Specifications                                                          *)
(***************************************************************************)
InitPool ==
    /\ default_region \in RegionArgs
    /\ clients = [k \in Keys |-> Nothing]
    /\ readers = {}
    /\ writer = Nothing
    /\ callPc = [c \in Callers |-> "idle"]
    /\ callRegion = [c \in Callers |-> None]
    /\ callClient = [c \in Callers |-> Nothing]
    /\ callRet = [c \in Callers |-> Nothing]
    /\ constructed = 0
    /\ SearchIdle
    /\ FollowIdle
    /\ FilterIdle
    /\ TuiIdle
    /\ FrontIdle

NextPool ==
    \/ \E c \in Callers : get_client_Call(c) /\ UNCHANGED <<frontVars, searchVars, followVars, filterVars, tuiVars>>
    \/ \E c \in Callers : get_client_AcquireRead(c) /\ UNCHANGED <<frontVars, searchVars, followVars, filterVars, tuiVars>>
    \/ \E c \in Callers : get_client_Check(c) /\ UNCHANGED <<frontVars, searchVars, followVars, filterVars, tuiVars>>
    \/ \E c \in Callers : get_client_Construct(c) /\ UNCHANGED <<frontVars, searchVars, followVars, filterVars, tuiVars>>
    \/ \E c \in Callers : get_client_AcquireWrite(c) /\ UNCHANGED <<frontVars, searchVars, followVars, filterVars, tuiVars>>
    \/ \E c \in Callers : get_client_Insert(c) /\ UNCHANGED <<frontVars, searchVars, followVars, filterVars, tuiVars>>

SpecPool == InitPool /\ [][NextPool]_vars

\* The runtime keeps polling a call that can go on, and tokio's RwLock hands
\* the lock to a waiter once it is free; whether a caller calls at all is the
\* caller's choice and carries no fairness.
get_client_Proceeds(c) ==
    /\ \/ get_client_AcquireRead(c)
       \/ get_client_Check(c)
       \/ get_client_Construct(c)
       \/ get_client_AcquireWrite(c)
       \/ get_client_Insert(c)
    /\ UNCHANGED <<frontVars, searchVars, followVars, filterVars, tuiVars>>

SpecPoolFair == SpecPool /\ \A c \in Callers : WF_vars(get_client_Proceeds(c))

\* what each backend holds for target i in the fan-out specification
FanData(b, n) ==
    IF b = "cloudwatch"
    THEN [i \in 1..n |-> <<ResultRow(Some(Some(InsightsStamp)), Some(Some(<<"o", "k">>)), Some(Some(<<"C", "m">>)))>>]
    ELSE [i \in 1..n |-> <<Stamp(i) \o <<" ", "E", "r", "r">> >>]

InitSearch ==
    /\ \E b \in {"cloudwatch", "kamal"} : SearchStart(b, NTargets, FanData(b, NTargets))
    /\ PoolIdle
    /\ FollowIdle
    /\ FilterIdle
    /\ TuiIdle
    /\ FrontIdle

NextSearch ==
    \/ \E i \in Targets :
         search_single_log_group_GetClient(i) /\ UNCHANGED <<frontVars, poolVars, followVars, filterVars, tuiVars>>
    \/ \E i \in Targets :
         search_single_log_group_StartQuery(i) /\ UNCHANGED <<frontVars, poolVars, followVars, filterVars, tuiVars>>
    \/ \E i \in Targets :
         search_single_log_group_GetQueryResults(i) /\ UNCHANGED <<frontVars, poolVars, followVars, filterVars, tuiVars>>
    \/ \E i \in Targets :
         search_single_log_group_Sleep(i) /\ UNCHANGED <<frontVars, poolVars, followVars, filterVars, tuiVars>>
    \/ \E i \in Targets :
         search_server_logs_Connect(i) /\ UNCHANGED <<frontVars, poolVars, followVars, filterVars, tuiVars>>
    \/ \E i \in Targets :
         search_server_logs_FindContainer(i) /\ UNCHANGED <<frontVars, poolVars, followVars, filterVars, tuiVars>>
    \/ \E i \in Targets :
         search_server_logs_FetchLogs(i) /\ UNCHANGED <<frontVars, poolVars, followVars, filterVars, tuiVars>>
    \/ \E i \in Targets :
         search_server_logs_Close(i) /\ UNCHANGED <<frontVars, poolVars, followVars, filterVars, tuiVars>>
    \/ join_all_Return /\ UNCHANGED <<frontVars, poolVars, followVars, filterVars, tuiVars>>

SpecSearch == InitSearch /\ [][NextSearch]_vars

InitPoll ==
    /\ \E rows \in RowLists : SearchStart("cloudwatch", 1, <<rows>>)
    /\ PoolIdle
    /\ FollowIdle
    /\ FilterIdle
    /\ TuiIdle
    /\ FrontIdle

NextPoll ==
    \/ \E i \in Targets :
         search_single_log_group_GetClient(i) /\ UNCHANGED <<frontVars, poolVars, followVars, filterVars, tuiVars>>
    \/ \E i \in Targets :
         search_single_log_group_StartQuery(i) /\ UNCHANGED <<frontVars, poolVars, followVars, filterVars, tuiVars>>
    \/ \E i \in Targets :
         search_single_log_group_GetQueryResults(i) /\ UNCHANGED <<frontVars, poolVars, followVars, filterVars, tuiVars>>
    \/ \E i \in Targets :
         search_single_log_group_Sleep(i) /\ UNCHANGED <<frontVars, poolVars, followVars, filterVars, tuiVars>>
    \/ join_all_Return /\ UNCHANGED <<frontVars, poolVars, followVars, filterVars, tuiVars>>

SpecPoll == InitPoll /\ [][NextPoll]_vars

InitFollow ==
    /\ FollowStart
    /\ PoolIdle
    /\ SearchIdle
    /\ FilterIdle
    /\ TuiIdle
    /\ FrontIdle

NextFollow ==
    \/ task_While /\ UNCHANGED <<frontVars, poolVars, searchVars, filterVars, tuiVars>>
    \/ task_Line /\ UNCHANGED <<frontVars, poolVars, searchVars, filterVars, tuiVars>>
    \/ task_EofOrError /\ UNCHANGED <<frontVars, poolVars, searchVars, filterVars, tuiVars>>
    \/ task_SleepFires /\ UNCHANGED <<frontVars, poolVars, searchVars, filterVars, tuiVars>>
    \/ task_Send /\ UNCHANGED <<frontVars, poolVars, searchVars, filterVars, tuiVars>>
    \/ task_Kill /\ UNCHANGED <<frontVars, poolVars, searchVars, filterVars, tuiVars>>
    \/ caller_TryRecv /\ UNCHANGED <<frontVars, poolVars, searchVars, filterVars, tuiVars>>
    \/ caller_SetStop /\ UNCHANGED <<frontVars, poolVars, searchVars, filterVars, tuiVars>>
    \/ caller_DropReceiver /\ UNCHANGED <<frontVars, poolVars, searchVars, filterVars, tuiVars>>
    \/ Tick /\ UNCHANGED <<frontVars, poolVars, searchVars, filterVars, tuiVars>>

SpecFollow == InitFollow /\ [][NextFollow]_vars

\* The tokio runtime keeps polling a spawned task that can make progress, and the
\* clock runs; what the remote process prints and what the holder of the Receiver
\* does are not the program's to decide, so they carry no fairness.
SpecFollowFair ==
    /\ SpecFollow
    /\ WF_vars(task_While /\ UNCHANGED <<frontVars, poolVars, searchVars, filterVars, tuiVars>>)
    /\ WF_vars(task_SleepFires /\ UNCHANGED <<frontVars, poolVars, searchVars, filterVars, tuiVars>>)
    /\ WF_vars(task_Send /\ UNCHANGED <<frontVars, poolVars, searchVars, filterVars, tuiVars>>)
    /\ WF_vars(task_Kill /\ UNCHANGED <<frontVars, poolVars, searchVars, filterVars, tuiVars>>)
    /\ WF_vars(Tick /\ UNCHANGED <<frontVars, poolVars, searchVars, filterVars, tuiVars>>)

InitFilter ==
    /\ params \in [patterns : PatternLists, exclude : PatternLists, limit : {params_limit}]
    /\ raw_logs \in LineLists
    /\ entries = Nothing
    /\ nread = 0
    /\ sent = <<>>
    /\ now \in Clock
    /\ PoolIdle
    /\ SearchIdle
    /\ FollowIdle
    /\ TuiIdle
    /\ FrontIdle

NextFilter ==
    \/ parse_logs_Call /\ UNCHANGED <<frontVars, poolVars, searchVars, followVars, tuiVars>>
    \/ task_FilterLine /\ UNCHANGED <<frontVars, poolVars, searchVars, followVars, tuiVars>>

SpecFilter == InitFilter /\ [][NextFilter]_vars

\* parse_logs and the follow task over the lines the ssh channel can carry, with
\* every limit up to MaxLimit
InitLines ==
    /\ params \in [patterns : {<<>>, << <<"e", "R">> >>},
                   exclude : {<<>>, << <<"X">> >>},
                   limit : 1..MaxLimit]
    /\ raw_logs \in RawLineLists
    /\ entries = Nothing
    /\ nread = 0
    /\ sent = <<>>
    /\ now \in Clock
    /\ PoolIdle
    /\ SearchIdle
    /\ FollowIdle
    /\ TuiIdle
    /\ FrontIdle

SpecLines == InitLines /\ [][NextFilter]_vars

\* a search command over 1..NCli targets in each output mode
InitCli ==
    /\ \E b \in {"cloudwatch", "kamal"}, n \in 1..NCli :
         SearchStart(b, n, [i \in 1..n |-> <<>>])
    /\ output_mode \in OutputModes
    /\ stdout = <<>>
    /\ stderr = <<>>
    /\ ret = Nothing
    /\ earlier = <<>>
    /\ AppSearchIdle
    /\ ParseIdle
    /\ UtilIdle
    /\ PoolIdle
    /\ FollowIdle
    /\ FilterIdle
    /\ TuiIdle

NextCli ==
    \/ \E i \in Targets :
         search_Completes(i)
         /\ UNCHANGED <<cliVars, appSearchVars, parseVars, utilVars, poolVars, followVars, filterVars, tuiVars>>
    \/ join_all_Return
         /\ UNCHANGED <<cliVars, appSearchVars, parseVars, utilVars, poolVars, followVars, filterVars, tuiVars>>
    \/ run_search_Output
         /\ UNCHANGED <<searchVars, appSearchVars, parseVars, utilVars, poolVars, followVars, filterVars, tuiVars>>
    \/ run_search_Again
         /\ UNCHANGED <<searchVars, appSearchVars, parseVars, utilVars, poolVars, followVars, filterVars, tuiVars>>

SpecCli == InitCli /\ [][NextCli]_vars

\* the Enter handler of the TUI at its await: app.search_state = Searching,
\* app.results cleared, the futures of the targets collected
InitAppSearch ==
    /\ \E b \in {"cloudwatch", "kamal"}, n \in 1..NCli :
         /\ SearchStart(b, n, [i \in 1..n |-> <<>>])
         /\ source_mode = IF b = "cloudwatch" THEN "CloudWatch" ELSE "Kamal"
    /\ appPc = "event"
    /\ focus \in {"Source", "Patterns"}
    /\ follow_mode \in (IF source_mode = "CloudWatch" THEN BOOLEAN ELSE {FALSE})
    /\ is_following = FALSE
    /\ follow_stop_flag = FALSE
    /\ sessions = 0
    /\ orphans = [unset |-> 0, set |-> 0]
    /\ search_state = [kind |-> "Searching"]
    /\ results = <<>>
    /\ CliIdle
    /\ ParseIdle
    /\ UtilIdle
    /\ PoolIdle
    /\ FollowIdle
    /\ FilterIdle

NextAppSearch ==
    \/ \E i \in Targets :
         search_Completes(i)
         /\ UNCHANGED <<cliVars, appSearchVars, parseVars, utilVars, poolVars, followVars, filterVars, tuiVars>>
    \/ join_all_Return
         /\ UNCHANGED <<cliVars, appSearchVars, parseVars, utilVars, poolVars, followVars, filterVars, tuiVars>>
    \/ key_Enter_Results
         /\ UNCHANGED <<cliVars, searchVars, parseVars, utilVars, poolVars, followVars, filterVars>>

SpecAppSearch == InitAppSearch /\ [][NextAppSearch]_vars

\* RegionalLogGroup::parse over every target text the bounds allow
InitParse ==
    /\ input \in TargetTexts \ {<<>>}
    /\ parsed = Nothing
    /\ CliIdle
    /\ AppSearchIdle
    /\ UtilIdle
    /\ PoolIdle
    /\ SearchIdle
    /\ FollowIdle
    /\ FilterIdle
    /\ TuiIdle

NextParse ==
    parse_Call
    /\ UNCHANGED <<cliVars, appSearchVars, utilVars, poolVars, searchVars, followVars, filterVars, tuiVars>>

SpecParse == InitParse /\ [][NextParse]_vars

\* the duration texts of the bounds with a relative window, and the default
\* --last "1h" with every pair of --start and --end texts
InitTime ==
    /\ \/ /\ \/ components \in ComponentLists /\ duration_str = concat(components)
             \/ components = <<>> /\ duration_str \in OtherDurationTexts
          /\ start_str = None
          /\ end_str = None
       \/ /\ components = <<<<"1", "h">>>>
          /\ duration_str = <<"1", "h">>
          /\ start_str \in DateTexts
          /\ end_str \in DateTexts \cup {None}
    /\ duration = Nothing
    /\ docker_since = Nothing
    /\ time_range = Nothing
    /\ FetchIdle
    /\ ListIdle
    /\ loops = 0
    /\ CliIdle
    /\ AppSearchIdle
    /\ ParseIdle
    /\ PoolIdle
    /\ SearchIdle
    /\ FollowIdle
    /\ FilterIdle
    /\ TuiIdle

NextTime ==
    \/ parse_duration_Call
         /\ UNCHANGED <<fetchVars, listVars, loops, cliVars, appSearchVars, parseVars, poolVars, searchVars, followVars, filterVars, tuiVars>>
    \/ to_docker_since_Call
         /\ UNCHANGED <<fetchVars, listVars, loops, cliVars, appSearchVars, parseVars, poolVars, searchVars, followVars, filterVars, tuiVars>>
    \/ from_explicit_Call
         /\ UNCHANGED <<fetchVars, listVars, loops, cliVars, appSearchVars, parseVars, poolVars, searchVars, followVars, filterVars, tuiVars>>
    \/ from_relative_Call
         /\ UNCHANGED <<fetchVars, listVars, loops, cliVars, appSearchVars, parseVars, poolVars, searchVars, followVars, filterVars, tuiVars>>

SpecTime == InitTime /\ [][NextTime]_vars

\* run_kamal_search with every limit and both builds
InitFetch ==
    /\ cli_limit \in Limits
    /\ overflow_checks \in BOOLEAN
    /\ docker_cmd = Nothing
    /\ components = <<>>
    /\ duration_str \in {<<"1", "h">>, <<" ", "2", "H", " ">>, <<"5", "x">>}
    /\ duration = Nothing
    /\ docker_since = Nothing
    /\ start_str = None
    /\ end_str = None
    /\ time_range = Nothing
    /\ ListIdle
    /\ loops = 0
    /\ CliIdle
    /\ AppSearchIdle
    /\ ParseIdle
    /\ PoolIdle
    /\ SearchIdle
    /\ FollowIdle
    /\ FilterIdle
    /\ TuiIdle

NextFetch ==
    \/ to_docker_since_Call
         /\ UNCHANGED <<fetchVars, listVars, loops, cliVars, appSearchVars, parseVars, poolVars, searchVars, followVars, filterVars, tuiVars>>
    \/ fetch_docker_logs_Command
         /\ UNCHANGED <<timeVars, listVars, loops, cliVars, appSearchVars, parseVars, poolVars, searchVars, followVars, filterVars, tuiVars>>

SpecFetch == InitFetch /\ [][NextFetch]_vars

\* one CloudWatch target whose Complete response holds any list of rows, fields
\* without a value and rows without @ptr included
InitRows ==
    /\ \E rows \in ResultLists : SearchStart("cloudwatch", 1, <<rows>>)
    /\ PoolIdle
    /\ FollowIdle
    /\ FilterIdle
    /\ TuiIdle
    /\ FrontIdle

SpecRows == InitRows /\ [][NextPoll]_vars

\* list_log_groups at the top of its loop: nothing listed, no token
InitList ==
    /\ listPc = "loop"
    /\ next_token = None
    /\ group_names = <<>>
    /\ requests = <<>>
    /\ responses = <<>>
    /\ list_ret = Nothing
    /\ TimeIdle
    /\ FetchIdle
    /\ loops = 0
    /\ CliIdle
    /\ AppSearchIdle
    /\ ParseIdle
    /\ PoolIdle
    /\ SearchIdle
    /\ FollowIdle
    /\ FilterIdle
    /\ TuiIdle

NextList ==
    list_log_groups_Request
    /\ UNCHANGED <<timeVars, fetchVars, loops, cliVars, appSearchVars, parseVars, poolVars, searchVars, followVars, filterVars, tuiVars>>

SpecList == InitList /\ [][NextList]_vars

\* the App with the results of a search on the screen, or about to search in
\* follow mode
InitBuffer ==
    /\ appPc = "event"
    /\ source_mode \in {"CloudWatch", "Kamal"}
    /\ focus \in {"Results", "Limit"}
    /\ follow_mode = (focus = "Limit")
    /\ is_following = FALSE
    /\ follow_stop_flag = FALSE
    /\ sessions = 0
    /\ orphans = [unset |-> 0, set |-> 0]
    /\ results \in (IF source_mode = "Kamal" THEN KamalBuffers ELSE CloudWatchBuffers)
    /\ search_state = [kind |-> "Complete", count |-> Len(results)]
    /\ loops = 0
    /\ TimeIdle
    /\ FetchIdle
    /\ ListIdle
    /\ CliIdle
    /\ ParseIdle
    /\ FollowIdle
    /\ PoolIdle
    /\ SearchIdle
    /\ FilterIdle

NextBuffer ==
    \/ run_app_Receive
         /\ UNCHANGED <<timeVars, fetchVars, listVars, cliVars, parseVars, poolVars, searchVars, filterVars>>
    \/ run_app_Poll
         /\ UNCHANGED <<timeVars, fetchVars, listVars, cliVars, parseVars, poolVars, searchVars, filterVars>>
    \/ run_app_Recv
         /\ UNCHANGED <<frontVars, poolVars, searchVars, filterVars>>
    \/ run_app_NoEvent
         /\ UNCHANGED <<frontVars, poolVars, searchVars, filterVars>>
    \/ key_f
         /\ UNCHANGED <<frontVars, poolVars, searchVars, filterVars>>
    \/ key_Enter_Search
         /\ UNCHANGED <<timeVars, fetchVars, listVars, cliVars, parseVars, poolVars, searchVars, filterVars>>

SpecBuffer == InitBuffer /\ [][NextBuffer]_vars

\* App::new, and run_app at the top of its loop
InitTui ==
    /\ appPc = "recv"
    /\ focus = "Source"
    /\ source_mode = "CloudWatch"
    /\ follow_mode = FALSE
    /\ is_following = FALSE
    /\ follow_stop_flag = FALSE
    /\ sessions = 0
    /\ orphans = [unset |-> 0, set |-> 0]
    /\ FollowIdle
    /\ PoolIdle
    /\ SearchIdle
    /\ FilterIdle
    /\ FrontIdle

NextTui ==
    \/ run_app_Recv /\ UNCHANGED <<frontVars, poolVars, searchVars, filterVars>>
    \/ run_app_NoEvent /\ UNCHANGED <<frontVars, poolVars, searchVars, filterVars>>
    \/ key_Tab /\ UNCHANGED <<frontVars, poolVars, searchVars, filterVars>>
    \/ key_BackTab /\ UNCHANGED <<frontVars, poolVars, searchVars, filterVars>>
    \/ key_ToggleSource /\ UNCHANGED <<frontVars, poolVars, searchVars, filterVars>>
    \/ key_Enter /\ UNCHANGED <<frontVars, poolVars, searchVars, filterVars>>
    \/ key_Esc /\ UNCHANGED <<frontVars, poolVars, searchVars, filterVars>>
    \/ key_f /\ UNCHANGED <<frontVars, poolVars, searchVars, filterVars>>
    \/ orphan_Exit /\ UNCHANGED <<frontVars, poolVars, searchVars, filterVars>>
    \/ task_While /\ UNCHANGED <<frontVars, poolVars, searchVars, filterVars, tuiVars>>
    \/ task_Line /\ UNCHANGED <<frontVars, poolVars, searchVars, filterVars, tuiVars>>
    \/ task_EofOrError /\ UNCHANGED <<frontVars, poolVars, searchVars, filterVars, tuiVars>>
    \/ task_SleepFires /\ UNCHANGED <<frontVars, poolVars, searchVars, filterVars, tuiVars>>
    \/ task_Send /\ UNCHANGED <<frontVars, poolVars, searchVars, filterVars, tuiVars>>
    \/ task_Kill /\ UNCHANGED <<frontVars, poolVars, searchVars, filterVars, tuiVars>>
    \/ Tick /\ UNCHANGED <<frontVars, poolVars, searchVars, filterVars, tuiVars>>

SpecTui == InitTui /\ [][NextTui]_vars

(***************************************************************************)
(* Claims                                                                  *)
(***************************************************************************)
KeyOf(c) == RegionKey(callRegion[c])

\* C1: however many get_client calls race on a key the pool does not hold, at most
\* one client is constructed for the key and every call returns that client.
C1_OneClientPerKey ==
    /\ \A k \in Keys :
         Cardinality({c \in Callers : IsSome(callClient[c]) /\ KeyOf(c) = k}) <= 1
    /\ \A c1, c2 \in Callers :
         (callPc[c1] = "done" /\ callPc[c2] = "done" /\ KeyOf(c1) = KeyOf(c2))
            => callRet[c1] = callRet[c2]

\* C2: once the pool holds a client for a key the entry is never replaced, and a
\* call that constructed a client after another call inserted returns the inserted
\* one.
C2_EntryNeverReplaced ==
    [][ /\ \A k \in Keys : IsSome(clients[k]) => clients'[k] = clients[k]
        /\ \A c \in Callers : callPc'[c] = "done" => callRet'[c] = clients'[KeyOf(c)]
      ]_vars

Step(i) == search_single_log_group(i) \/ search_server_logs(i)

\* C3: a target that fails neither stops nor alters the others: while a failed
\* target exists every unfinished target can still take its next step, and the
\* returned list has one outcome per target, an Err exactly where the target failed.
C3_FailureIsolated ==
    /\ \A i \in Targets :
         (returned = Nothing /\ pc[i] # "done" /\ \E j \in Targets : fault[j] # None)
            => ENABLED Step(i)
    /\ returned # Nothing =>
         /\ Len(Get(returned)) = Len(log_groups)
         /\ \A i \in Targets :
              /\ pc[i] = "done"
              /\ Get(returned)[i].ok <=> fault[i] = None

\* three targets, the second failed, the first and third succeeded
C3_Witness ==
    /\ returned # Nothing
    /\ Len(Get(returned)) = 3
    /\ Get(returned)[1].ok /\ ~Get(returned)[2].ok /\ Get(returned)[3].ok

\* the log group the entries of target i carry
GroupOf(i) ==
    IF backend = "kamal" THEN kamal_group(log_groups[i].log_group)
    ELSE log_groups[i].log_group

\* C4: the returned list has exactly one outcome per input target and the outcome at
\* index i is that of the i-th target, whatever the completion order.
C4_OutcomesInInputOrder ==
    returned # Nothing =>
        /\ Len(Get(returned)) = Len(log_groups)
        /\ \A i \in Targets :
             /\ Get(returned)[i].target = i
             /\ \A k \in 1..Len(Get(returned)[i].entries) :
                  Get(returned)[i].entries[k].log_group = GroupOf(i)

\* the targets completed in an order that is not the input order
C4_Witness ==
    /\ returned # Nothing
    /\ Len(completed) = Len(log_groups)
    /\ completed[1] # 1
    /\ \A i \in Targets : Get(returned)[i].ok

\* C5: every target is in flight at once: an unfinished target can always take its
\* next step, whatever the state of the other targets.
C5_AllInFlight ==
    \A i \in Targets : (returned = Nothing /\ pc[i] # "done") => ENABLED Step(i)

\* a later target has its outcome while an earlier one is still polling
C5_Witness ==
    \E i, j \in Targets :
        /\ i < j
        /\ backend = "cloudwatch"
        /\ pc[i] \in {"poll", "sleep"}
        /\ lastEvent[i] # "none"
        /\ pc[j] = "done"
        /\ Get(outcome[j]).ok

\* the row carries a @timestamp the program can parse, a @message with a value
CarriesTimestamp(r) ==
    \E k \in DOMAIN r : r[k].field = "@timestamp" /\ r[k].value = Some(InsightsStamp)
CarriesMessage(r) == \E k \in DOMAIN r : r[k].field = "@message" /\ IsSome(r[k].value)
MessageOf(r) == Get(r[CHOOSE k \in DOMAIN r : r[k].field = "@message"].value)
IsGoodRow(r) == CarriesTimestamp(r) /\ CarriesMessage(r)

\* C6: a target's search is Ok exactly when the last status was Complete, and then
\* holds the parsable rows of the response in order; after Failed, Cancelled or
\* Timeout it is an Err whose text holds the query id and the status.
C6_OkIffComplete ==
    \A i \in Targets :
        (backend = "cloudwatch" /\ pc[i] = "done") =>
            LET o == Get(outcome[i])
                good == SelectSeq(data[i], IsGoodRow)
            IN  /\ o.ok <=> status[i] = "Complete"
                /\ o.ok =>
                     /\ Len(o.entries) = Len(good)
                     /\ \A k \in 1..Len(good) :
                          /\ o.entries[k].message = MessageOf(good[k])
                          /\ o.entries[k].log_group = log_groups[i].log_group
                          /\ o.entries[k].region = log_groups[i].region
                /\ status[i] \in {"Failed", "Cancelled", "Timeout"} =>
                     /\ ~o.ok
                     /\ \E k \in DOMAIN o.err : o.err[k] = ToString(Get(query_id[i]))
                     /\ \E k \in DOMAIN o.err : o.err[k] = status[i]

\* a Complete response of two rows, one of them unparsable
C6_Witness ==
    \E i \in Targets :
        /\ pc[i] = "done"
        /\ status[i] = "Complete"
        /\ Len(data[i]) = 2
        /\ Len(Get(outcome[i]).entries) = 1

\* C7: the poll that observes a terminal status is the last one: the future is done
\* in the very state that holds the status, and a done future sends no request.
C7_TerminalEndsPolling ==
    [][ \A i \in Targets :
          /\ status'[i] \in TerminalStatuses => pc'[i] = "done"
          /\ pc[i] = "done" =>
               /\ ~search_single_log_group_GetQueryResults(i)
               /\ pc'[i] = "done"
               /\ lastEvent'[i] = lastEvent[i]
               /\ outcome'[i] = outcome[i]
      ]_vars

\* one query was answered Cancelled and its future is done, while another target's
\* loop sleeps between two requests
C7_Witness ==
    \E i, j \in Targets :
        /\ status[i] = "Cancelled"
        /\ pc[i] = "done"
        /\ pc[j] = "sleep"

\* C8: a status request is never sent right after another one for the same query:
\* the 500 ms sleep lies between them.
C8_SleepBetweenRequests ==
    [][ \A i \in Targets :
          search_single_log_group_GetQueryResults(i) => lastEvent[i] # "request"
      ]_vars

\* a request was sent, the sleep has elapsed and the next request is due
C8_Witness ==
    \E i \in Targets : pc[i] = "poll" /\ lastEvent[i] = "sleep" /\ IsSome(query_id[i])

NonTerminalStatuses == {"Scheduled", "Running", "Unknown", ""}

\* C9: the poll loop has no bound: it is left only on a terminal status or a transport
\* error; every other answer leads to the sleep and from there to another request,
\* which is always possible.
C9_NoPollBound ==
    /\ [](\A i \in Targets :
            /\ pc[i] = "sleep" => ENABLED search_single_log_group_Sleep(i)
            /\ pc[i] = "poll" => ENABLED search_single_log_group_GetQueryResults(i))
    /\ [][ \A i \in Targets :
             /\ (pc[i] = "poll" /\ pc'[i] = "done")
                   => (status'[i] \in TerminalStatuses \/ fault'[i] = "transport")
             /\ (pc[i] = "poll" /\ status'[i] \in NonTerminalStatuses) => pc'[i] = "sleep"
             /\ (pc[i] = "sleep" /\ pc'[i] # "sleep") => pc'[i] = "poll"
         ]_vars

\* a response that carries no status was taken as still running: the loop sleeps
C9_Witness ==
    \E i \in Targets : status[i] = "" /\ pc[i] = "sleep"

C17_SessionClosedOnReturn ==
    \A i \in Targets : pc[i] = "done" => session[i] \in {"none", "closed"}

OnlyWhitespace(t) == \A k \in 1..Len(t) : t[k] = " " \/ t[k] = "\n"

\* docker ps ran on server i and printed no container id
NoContainer(i) ==
    \E k \in 1..Len(commands[i]) :
        /\ commands[i][k].cmd = "docker ps"
        /\ commands[i][k].out.ran
        /\ commands[i][k].out.success
        /\ OnlyWhitespace(commands[i][k].out.stdout)

\* C18: a server on which docker ps names no running container of the service yields
\* an Err for that server, never an Ok, and no docker logs command is run on it.
C18_NoContainerIsErr ==
    \A i \in Targets :
        (backend = "kamal" /\ NoContainer(i)) =>
            /\ pc[i] = "done"
            /\ ~Get(outcome[i]).ok
            /\ Get(outcome[i]).err = <<"No running container found for service">>
            /\ \A k \in 1..Len(commands[i]) : commands[i][k].cmd # "docker logs"

\* docker ps printed only a newline on one server, while another server's search
\* returned entries
C18_Witness ==
    \E i, j \in Targets :
        /\ NoContainer(i)
        /\ commands[i][1].out.stdout = <<"\n">>
        /\ returned # Nothing
        /\ Get(returned)[j].ok
        /\ Len(Get(returned)[j].entries) = 1

\* the two characters are the same letter, whatever their case
SameLetter(a, b) ==
    \/ a = b
    \/ {a, b} \in { {"e", "E"}, {"r", "R"}, {"x", "X"} }

\* `p` occurs in `t` when case is ignored
ContainsIgnoringCase(t, p) ==
    \E k \in 0..(Len(t) - Len(p)) : \A j \in 1..Len(p) : SameLetter(t[k + j], p[j])

\* C20: no entry that a CloudWatch search returns contains an exclude pattern of the
\* search.
C20_ExcludeAppliedToPoll ==
    (backend = "cloudwatch" /\ returned # Nothing) =>
        \A i \in Targets : \A k \in 1..Len(Get(returned)[i].entries) :
            \A e \in 1..Len(exclude) :
                ~ContainsIgnoringCase(Get(returned)[i].entries[k].message, exclude[e])

\* the filter as the claim states it: every include pattern and no exclude pattern
\* occurs in the message, case ignored
Keeps(message) ==
    /\ \A k \in 1..Len(params.patterns) : ContainsIgnoringCase(message, params.patterns[k])
    /\ \A k \in 1..Len(params.exclude) : ~ContainsIgnoringCase(message, params.exclude[k])

\* the message of the k-th line docker logs printed, written at second k
MessageAt(k) == CHOOSE m \in FollowMessages : raw_logs[k] = DockerLine(k, m)

\* C19: in parse_logs and in the follow task a line is kept exactly when its message
\* contains every include pattern and no exclude pattern, case ignored; with no
\* include pattern every line without an exclude pattern is kept.
C19_FilterExact ==
    /\ entries # Nothing =>
         /\ \A k \in 1..Len(raw_logs) :
              (\E j \in 1..Len(Get(entries)) :
                  /\ Get(entries)[j].timestamp = k
                  /\ Get(entries)[j].message = MessageAt(k))
                <=> Keeps(MessageAt(k))
         /\ Len(Get(entries)) = Cardinality({k \in 1..Len(raw_logs) : Keeps(MessageAt(k))})
    /\ \A k \in 1..nread :
         (\E j \in 1..Len(sent) :
             sent[j].timestamp = k /\ sent[j].message = MessageAt(k))
           <=> Keeps(MessageAt(k))
    /\ Len(sent) = Cardinality({k \in 1..nread : Keeps(MessageAt(k))})

\* no include pattern, an exclude pattern in another case than the message: of two
\* lines the one with the exclude pattern is dropped on both paths
C19_Witness ==
    /\ params.patterns = <<>>
    /\ params.exclude = << <<"X">> >>
    /\ raw_logs = <<DockerLine(1, <<"e", "r", "x">>), DockerLine(2, <<"o", "k">>)>>
    /\ entries # Nothing
    /\ Len(Get(entries)) = 1
    /\ nread = 2
    /\ Len(sent) = 1

\* C12: the send into the channel never waits: whenever the task has an entry to
\* send, the send can complete at once, also when the channel is full.
C12_SendNeverWaits ==
    taskPc = "send" => ENABLED task_Send

\* C13: once the Receiver is dropped the task eventually ends (and with it the ssh
\* process is killed).
C13_TaskEndsOnceReceiverDropped ==
    (~receiverAlive) ~> (taskPc = "ended" /\ ~childAlive)

InLoop(p) == p \in {"while", "select", "send"}

\* C16: the task leaves its loop only towards child.kill(), the kill can always be
\* taken, and a task that has ended has killed the ssh process.
C16_EveryExitKills ==
    /\ [](/\ taskPc = "ended" => ~childAlive
          /\ taskPc = "kill" => ENABLED task_Kill)
    /\ [][ /\ (InLoop(taskPc) /\ ~InLoop(taskPc')) => taskPc' = "kill"
           /\ taskPc = "kill" => taskPc' \in {"kill", "ended"}
           /\ (taskPc # "ended" /\ taskPc' = "ended") => ~childAlive'
         ]_vars

\* the stream ended while the Receiver was held and no stop was requested, and the
\* task killed the ssh process on its way out
C16_Witness ==
    /\ taskPc = "ended"
    /\ ~childAlive
    /\ receiverAlive
    /\ ~stop_flag
    /\ delivered > 0

\* C11: once App::stop_following has stopped a session, the TUI takes no further
\* entry from that session's channel, whatever its task still does.
C11_NoDeliveryAfterStop ==
    [][ (stop_flag /\ sessions' = sessions) => delivered' = delivered ]_vars

\* the session was stopped after the TUI had taken an entry, while the task held
\* another matching entry ready to send
C11_Witness ==
    /\ stop_flag
    /\ ~receiverAlive
    /\ ~is_following
    /\ delivered > 0
    /\ taskPc = "send"
    /\ IsSome(pending)

\* C14: a follow session is started only when the task of every earlier session has
\* ended or has its stop flag set.
C14_OneActiveSession ==
    [][ sessions' > sessions =>
          /\ taskPc \in {"none", "ended"} \/ stop_flag
          /\ orphans.unset = 0
      ]_vars

\* C15: when the task has ended on EOF or a read error, the next pass of the TUI loop
\* over the channel ends the session: is_following is false and the Receiver and the
\* flag are released.
C15_SessionEndsWithRemote ==
    [][ (appPc = "recv" /\ appPc' = "event" /\ receiverAlive /\ taskPc = "ended") =>
          (~is_following' /\ ~receiverAlive' /\ ~follow_stop_flag')
      ]_vars

\* C21: the follow path and the batch path keep the same lines: once the follow
\* task has read every line and parse_logs has returned without cutting the list,
\* the entries parse_logs returned are the entries the task sent (message, log
\* group and stream), in the order of the sort.
C21_FollowKeepsWhatBatchKeeps ==
    (nread = Len(raw_logs) /\ entries # Nothing /\ Len(raw_logs) <= params.limit) =>
        Get(entries) = SortDesc(sent)

\* C22: parse_logs returns at most `limit` entries, newest first, and they are the
\* `limit` newest of the entries that pass the filters, all of them when fewer pass.
C22_LimitNewestDescending ==
    entries # Nothing =>
        LET out == Get(entries)
            passing == FilterLines(raw_logs, "server", params, now)
        IN  /\ Len(out) <= params.limit
            /\ \A k \in 1..(Len(out) - 1) : out[k].timestamp >= out[k + 1].timestamp
            /\ Len(out) = IF Len(passing) < params.limit THEN Len(passing) ELSE params.limit
            /\ \A k \in 1..Len(out) :
                 \E j \in 1..Len(passing) : passing[j] = out[k]
            /\ \A j \in 1..Len(passing) :
                 (\A k \in 1..Len(out) : out[k] # passing[j]) =>
                     \A k \in 1..Len(out) : out[k].timestamp >= passing[j].timestamp

\* two lines pass, the older printed first, and the limit of one keeps the newer
C22_Witness ==
    /\ entries # Nothing
    /\ params.limit = 1
    /\ raw_logs = <<DockerLine(1, <<"E", "r", "r">>), DockerLine(3, <<"e", "r", "x">>)>>
    /\ params.exclude = <<>>
    /\ Len(Get(entries)) = 1
    /\ Get(entries)[1].timestamp = 3

\* the line has no timestamp in front: no space, or a first word that
\* parse_docker_timestamp rejects
NoTimestampPrefix(line) ==
    \/ find(line, " ") = Nothing
    \/ parse_docker_timestamp(splitn2(line)[1]) = Nothing

\* C23: a line without a timestamp in front becomes an entry whose message is the
\* whole line and whose timestamp is the time of ingestion, in the follow task
\* (parse_log_line_static) and in parse_logs (parse_log_line).
C23_WholeLineWhenNoTimestamp ==
    (params.patterns = <<>> /\ params.exclude = <<>>) =>
        /\ \A k \in 1..nread :
             NoTimestampPrefix(raw_logs[k]) =>
                 /\ sent[k].message = raw_logs[k]
                 /\ sent[k].timestamp = now
        /\ (entries # Nothing /\ Len(raw_logs) <= params.limit) =>
             \A k \in 1..Len(raw_logs) :
                 (NoTimestampPrefix(raw_logs[k]) /\ trim(raw_logs[k]) # <<>>) =>
                     \E j \in 1..Len(Get(entries)) :
                         /\ Get(entries)[j].message = raw_logs[k]
                         /\ Get(entries)[j].timestamp = now

\* the entries among the lines of stdout, in order
IsEntryLine(l) == l.kind = "entry"
PrintedEntries(out) == [k \in 1..Len(SelectSeq(out, IsEntryLine)) |-> SelectSeq(out, IsEntryLine)[k].entry]

\* how often `e` occurs in the list `es`
Count(es, e) == Cardinality({k \in 1..Len(es) : es[k] = e})

\* how often `e` occurs among the entries of the successful targets
RECURSIVE CountInResults(_, _)
CountInResults(rs, e) ==
    IF rs = <<>> THEN 0
    ELSE (IF Head(rs).ok THEN Count(Head(rs).entries, e) ELSE 0)
         + CountInResults(Tail(rs), e)

\* the number of entries of the successful targets
RECURSIVE TotalEntries(_)
TotalEntries(rs) ==
    IF rs = <<>> THEN 0
    ELSE (IF Head(rs).ok THEN Len(Head(rs).entries) ELSE 0)
         + TotalEntries(Tail(rs))

\* C24: interleaved output is one list with every entry of every successful target
\* exactly once, as many entries as the targets returned together, oldest first.
C24_InterleavedIsSortedUnion ==
    (output_mode = "Interleaved" /\ ret # Nothing) =>
        LET out == PrintedEntries(stdout)
        IN  /\ Len(out) = TotalEntries(Get(returned))
            /\ \A i \in Targets : \A k \in 1..Len(Get(returned)[i].entries) :
                 Count(out, Get(returned)[i].entries[k])
                    = CountInResults(Get(returned), Get(returned)[i].entries[k])
            /\ \A k \in 1..(Len(out) - 1) : out[k].timestamp <= out[k + 1].timestamp

\* two targets answered with two entries and with one entry between them in time
C24_Witness ==
    /\ output_mode = "Interleaved"
    /\ ret # Nothing
    /\ Len(log_groups) >= 2
    /\ Len(Get(returned)[1].entries) = 2
    /\ Len(Get(returned)[2].entries) = 1
    /\ Len(PrintedEntries(stdout)) = 3
    /\ PrintedEntries(stdout)[2].log_group = Get(returned)[2].entries[1].log_group

\* C25: grouped output is the same on every run over the same per-target results.
C25_GroupedOutputDeterministic ==
    (output_mode = "Grouped" /\ ret # Nothing) =>
        \A k \in 1..Len(earlier) : earlier[k] = stdout

\* the entries of target i are on stdout
Emitted(i) ==
    \A k \in 1..Len(Get(outcome[i]).entries) :
        Count(PrintedEntries(stdout), Get(outcome[i]).entries[k]) > 0

\* C26: in streaming mode the entries of a target whose search has completed are
\* printed, or can be printed at once, while other targets are still searching.
C26_StreamingEmitsOnCompletion ==
    (output_mode = "Streaming" /\ ret = Nothing /\ earlier = <<>>) =>
        \A i \in Targets :
            (/\ pc[i] = "done"
             /\ Get(outcome[i]).ok
             /\ \E j \in Targets : pc[j] # "done")
            => (Emitted(i) \/ ENABLED run_search_Output)

\* C27: a search all of whose targets failed does not return Ok.
C27_AllFailedIsError ==
    (ret # Nothing /\ \A i \in Targets : ~Get(returned)[i].ok) => Get(ret) # "Ok"

\* the search of the TUI has ended with at least one Ok and at least one Err
PartialFailure ==
    /\ returned # Nothing
    /\ search_state.kind # "Searching"
    /\ \E i \in Targets : Get(returned)[i].ok
    /\ \E i \in Targets : ~Get(returned)[i].ok

\* the text of error `err` is part of what the App holds
KeptByApp(err) ==
    /\ search_state.kind = "Error"
    /\ contains(search_state.message, err)

\* C28: a TUI search with at least one successful and at least one failed target
\* ends in Complete, whatever the number of entries, and the App keeps the errors
\* of the failed targets next to the entries.
C28_PartialFailureKeepsBoth ==
    PartialFailure =>
        /\ search_state.kind = "Complete"
        /\ results = SortDesc(all_entries(Get(returned)))
        /\ \A i \in Targets : ~Get(returned)[i].ok => KeptByApp(Get(returned)[i].err)

\* the region shape of the specification: two or more segments of lowercase
\* letters joined by hyphens, then a last segment of digits
StrictRegionShape(s) ==
    LET parts == split(s, "-")
    IN  /\ Len(parts) >= 3
        /\ \A k \in 1..(Len(parts) - 1) :
             /\ parts[k] # <<>>
             /\ \A j \in 1..Len(parts[k]) : parts[k][j] \in LowercaseLetters
        /\ parts[Len(parts)] # <<>>
        /\ \A j \in 1..Len(parts[Len(parts)]) : parts[Len(parts)][j] \in Digits

\* the text before the first colon of the trimmed input, and the text after it
BeforeColon(t) == SubSeq(t, 1, Get(find(t, ":")) - 1)
AfterColon(t) == SubSeq(t, Get(find(t, ":")) + 1, Len(t))

\* C29: what parse returns: with a region-shaped text before the first colon that
\* text as region and all that follows the colon as log group, and for every other
\* input no region and the whole trimmed input as log group.
C29_ParseSplitsAtFirstColon ==
    parsed # Nothing =>
        LET t == trim(input)
        IN  IF find(t, ":") # Nothing /\ StrictRegionShape(BeforeColon(t))
            THEN Get(parsed) = [region |-> Some(BeforeColon(t)), log_group |-> AfterColon(t)]
            ELSE Get(parsed) = [region |-> Nothing, log_group |-> t]

\* C30: a left-hand side is taken as region only if it has the strict region shape.
C30_RegionOnlyIfStrictShape ==
    (parsed # Nothing /\ Get(parsed).region # Nothing) =>
        StrictRegionShape(Get(Get(parsed).region))

\* the value of a component, in tenths of a second
ComponentTenths(c) ==
    CASE c = <<"1", "h">> -> 36000
      [] c = <<"3", "0", "m">> -> 18000
      [] c = <<"9", "0", "m">> -> 54000
      [] c = <<"2", "d">> -> 1728000
      [] c = <<"1", "2", "h">> -> 432000
      [] c = <<"1", "w">> -> 6048000
      [] c = <<"1", ".", "5", "h">> -> 54000
      [] c = <<"0", ".", "1", "s">> -> 1
      [] c = <<"0", ".", "2", "s">> -> 2
      [] c = <<"0", ".", "7", "s">> -> 7

RECURSIVE SumTenths(_)
SumTenths(ps) == IF ps = <<>> THEN 0 ELSE ComponentTenths(Head(ps)) + SumTenths(Tail(ps))

\* C31: parse_duration of a concatenation of <number><unit> components is the
\* sum of the values of the components (in whole seconds), in whatever order
\* the components stand
C31_DurationIsSumOfComponents ==
    (components # <<>> /\ IsSome(duration)) =>
        Get(duration) = DurationOk(SumTenths(components) \div 10)

\* a number stands before a recognized unit, with nothing but whitespace between
HasNumberAndUnit(t) ==
    \E i \in 1..Len(t), m \in 1..Len(t) :
        /\ i < m
        /\ t[i] \in Digits
        /\ Lower(t[m]) \in UnitLetters
        /\ \A k \in (i + 1)..(m - 1) : t[k] \in Whitespace

\* C32: parse_duration returns an error for the empty input, the blank input and
\* every input without a number followed by a recognized unit, and
\* to_docker_since fails on exactly the inputs parse_duration fails on
C32_NoComponentIsError ==
    /\ (IsSome(duration) /\ ~HasNumberAndUnit(duration_str)) => ~Get(duration).ok
    /\ (IsSome(duration) /\ IsSome(docker_since)) =>
           (Get(docker_since).ok <=> Get(duration).ok)

C32_Witness ==
    /\ duration_str = <<"5", "x">>
    /\ IsSome(duration) /\ ~Get(duration).ok
    /\ IsSome(docker_since) /\ ~Get(docker_since).ok

\* C33: every window that from_relative or from_explicit returns has its end at
\* or after its start
C33_WindowEndNotBeforeStart ==
    (IsSome(time_range) /\ Get(time_range).ok) =>
        Get(time_range).end >= Get(time_range).start

\* C34: for every limit of the command line fetch_docker_logs asks for
\* max(10 * cap, 1000) lines, cap being the limit cast to usize: the product
\* neither panics nor wraps
C34_TailIsTenTimesCap ==
    IsSome(docker_cmd) =>
        /\ ~Get(docker_cmd).panic
        /\ Get(docker_cmd).tail \o <<0>> = usize_max(mul_limbs(as_usize(cli_limit), 10, 0), 1000)

\* C35: the Complete response of a target yields Ok with one entry for each row
\* that carries a parsable @timestamp and a @message, in the order of the rows;
\* every other row is dropped, and fields of other names change nothing
C35_EntryIffTimestampAndMessage ==
    \A i \in Targets :
        (backend = "cloudwatch" /\ pc[i] = "done" /\ status[i] = "Complete") =>
            LET o == Get(outcome[i])
                good == SelectSeq(data[i], IsGoodRow)
            IN  /\ o.ok
                /\ Len(o.entries) = Len(good)
                /\ \A k \in 1..Len(good) :
                     /\ o.entries[k].message = MessageOf(good[k])
                     /\ o.entries[k].timestamp = 20165200

\* a response of two good rows between which no order is lost, one of them
\* without @ptr, or a good row after one whose @message has no value
C35_Witness ==
    \E i \in Targets :
        /\ pc[i] = "done" /\ status[i] = "Complete"
        /\ Len(data[i]) = 2
        /\ \/ /\ IsGoodRow(data[i][1]) /\ IsGoodRow(data[i][2])
              /\ MessageOf(data[i][1]) # MessageOf(data[i][2])
              /\ Len(data[i][1]) = 2 /\ Len(data[i][2]) = 3
              /\ Len(Get(outcome[i]).entries) = 2
           \/ /\ ~CarriesMessage(data[i][1]) /\ Len(data[i][1]) = 3
              /\ IsGoodRow(data[i][2])
              /\ Len(Get(outcome[i]).entries) = 1

\* the names of the pages, in page order
RECURSIVE NamesOf(_)
NamesOf(pages) ==
    IF pages = <<>> THEN <<>>
    ELSE (IF IsSome(Head(pages).log_groups)
          THEN SelectSeq(Get(Head(pages).log_groups), LAMBDA name : name # None)
          ELSE <<>>) \o NamesOf(Tail(pages))

\* C36: the first request carries no token and every later request carries the
\* token of the response before it; list_log_groups goes on while the responses
\* carry tokens, returns at the first response without one, with the names of
\* all pages in page order, and returns an error without any name when a
\* request fails
C36_PagesUntilNoToken ==
    /\ \A k \in DOMAIN requests :
         requests[k] = IF k = 1 THEN None ELSE responses[k - 1].next_token
    /\ \A k \in DOMAIN responses :
         responses[k].next_token = None => (k = Len(responses) /\ IsSome(list_ret))
    /\ IsSome(list_ret) =>
         IF Len(responses) = Len(requests)
         THEN /\ responses[Len(responses)].next_token = None
              /\ Get(list_ret) = ListOk(NamesOf(responses))
         ELSE Get(list_ret) = ListErr
    /\ (Len(responses) = Len(requests) /\ \A k \in DOMAIN responses : responses[k].next_token # None)
         => list_ret = Nothing /\ listPc = "loop"

\* three pages were listed, with names on them
C36_Witness ==
    /\ IsSome(list_ret) /\ Get(list_ret).ok
    /\ Len(responses) = 3
    /\ Len(Get(list_ret).log_groups) >= 3

\* C37: a call holds no lock while it constructs its client or waits for the
\* write lock, every call that was made returns, and once it has returned the
\* pool holds an entry for its key
C37_EveryCallReturns ==
    /\ [](\A c \in Callers :
            callPc[c] \in {"construct", "write"} => (c \notin readers /\ writer # Some(c)))
    /\ [](\A c \in Callers :
            callPc[c] = "done" => IsSome(clients[RegionKey(callRegion[c])]))
    /\ \A c \in Callers : (callPc[c] # "idle") ~> (callPc[c] = "done")

\* a call waits for the write lock while another call holds the read lock and a
\* third has returned
C37_Witness ==
    \E c1, c2, c3 \in Callers :
        /\ callPc[c1] = "write"
        /\ callPc[c2] = "check" /\ c2 \in readers
        /\ callPc[c3] = "done"

\* C38: search_log_groups has returned only when every target has reached its
\* outcome: while a target is still polling, sleeping or connecting the caller
\* holds nothing, however long that lasts
C38_ReturnsAfterEveryTarget ==
    /\ returned # Nothing => \A i \in Targets : pc[i] = "done" /\ IsSome(outcome[i])
    /\ (\E i \in Targets : pc[i] # "done") => returned = Nothing

\* all targets but one have their outcome, the last one sleeps after a Running
\* answer, and the call has not returned
C38_Witness ==
    /\ backend = "cloudwatch"
    /\ returned = Nothing
    /\ \E j \in Targets :
         /\ pc[j] = "sleep" /\ status[j] = "Running"
         /\ \A i \in Targets \ {j} : pc[i] = "done"

\* C39: while a follow session is active app.results holds at most 10000
\* entries, whatever it held when the session started
C39_BufferWithinCap ==
    is_following => Len(results) <= results_cap

\* no two entries of the buffer have the same timestamp and the same message
NoTwoEqual(buf) ==
    \A i, j \in 1..Len(buf) :
        (buf[i].timestamp = buf[j].timestamp /\ buf[i].message = buf[j].message) => i = j

\* C40: in CloudWatch follow mode app.results never holds two entries with the
\* same timestamp and the same message, however many entries the polls return
C40_PollInsertsNothingTwice ==
    (source_mode = "CloudWatch" /\ is_following) => NoTwoEqual(results)

====
